---------------------------- MODULE Spec2Model ----------------------------
(***************************************************************************)
(* Model of the session-to-sandbox lifecycle manager and the streaming     *)
(* edit coordinator of wtait/Scaffold:                                     *)
(*   src/src/websocket_server.py  ConnectionManager, websocket_endpoint,   *)
(*                                cleanup_session                          *)
(*   src/src/agent.py             Agent.init, create_app_environment,      *)
(*                                send_feedback, edit_code, add_to_history *)
(*   src/src/tools.py             SandboxTools                             *)
(*   src/src/sandbox_manager.py   DockerSandboxManager                     *)
(*   src/src/database.py          DatabaseManager (project_sessions)       *)
(*                                                                         *)
(* The server is one asyncio event loop: a coroutine runs without          *)
(* interruption from one await to the next.  Every action below is one     *)
(* such segment (or a part of one that touches no shared state).           *)
(***************************************************************************)
EXTENDS Integers, Sequences, FiniteSets, TLC

(***************************************************************************)
(* Bounds of the model.                                                    *)
(***************************************************************************)
MaxPartials == 2      \* partials one LLM stream delivers at most
MaxTurns == 2         \* user messages one connection sends at most
MaxAgents == 2        \* Agent objects constructed at most
MaxContainers == 3    \* container ids the docker daemon hands out at most
MaxProbes == 3        \* port candidates one orchestrator tries at most
MaxClock == 1         \* seconds the wall clock advances at most
MaxCalls == 3         \* direct calls of orchestrator methods at most
MaxRetries == 3       \* _cleanup_existing_container max_retries

(***************************************************************************)
(* Program constants.                                                      *)
(***************************************************************************)
BasePort == 3100      \* DockerSandboxManager._next_port initial value

(***************************************************************************)
(* Value universes.                                                        *)
(***************************************************************************)
Sessions == {"s1", "s2"}
Conns == {"c1", "c2"}
NoConn == "none"
NoAgent == 0
AgentIds == 1..MaxAgents
NoCid == 0            \* Python None for a sandbox id
OldCid == 1           \* a container left over from an earlier server run

Paths == {"P", "Q"}
Contents == {"A", "B"}
Absent == "absent"
PlanTexts == {"t1", "t2"}
PlanStates == {"Incomplete", "Complete"}
Feedbacks == {"f1"}

FileEntry(path, content) == [path |-> path, content |-> content]
\* partial.files of one element of the stream: nothing yet, one file in
\* either version, or the cumulative snapshot of two files
FileLists ==
    {<<>>, <<FileEntry("P", "A")>>, <<FileEntry("P", "B")>>,
     <<FileEntry("P", "B"), FileEntry("Q", "A")>>}
\* one element of the stream: {plan: {state, value}, files: [...]}
Partials == [state : PlanStates, value : PlanTexts, files : FileLists]
\* the stream alphabet of a plan that is streamed before it is Complete
\* (an unfinished plan carries the text t1) with cumulative file lists
PartialsTurn ==
    {p \in Partials : /\ p.state = "Incomplete" => p.value = "t1"
                      /\ p.files # <<FileEntry("P", "B")>>}
\* a narrower stream alphabet: one plan text, files on one path
PartialsNarrow ==
    {p \in Partials : p.value = "t1" /\ Len(p.files) <= 1
                      /\ \A i \in 1..Len(p.files) : p.files[i].path = "P"}
\* two complete answers that disagree on both files
PartialsShared ==
    {[state |-> "Complete", value |-> "t1", files |-> l] :
       l \in {<<FileEntry("P", "B"), FileEntry("Q", "A")>>,
              <<FileEntry("P", "A"), FileEntry("Q", "B")>>}}

(***************************************************************************)
(* f"http://localhost:{port}"                                              *)
(***************************************************************************)
Url(port) == <<"http://localhost:", port>>
NoUrl == <<>>

\* container_name = f"sandbox-{session_id}-{timestamp}"
ContainerName(sid, ts) == <<"sandbox", sid, ts>>

(***************************************************************************)
(* Records.                                                                *)
(***************************************************************************)
\* agent.session_data has no entry for the session
NoBinding ==
    [sandbox_id |-> NoCid, session_id |-> "none", url |-> NoUrl,
     port |-> 0, status |-> "absent"]

\* the dict create_sandbox / connect_sandbox return
SandboxData(cid, sid, port, status) ==
    [sandbox_id |-> cid, session_id |-> sid, url |-> Url(port),
     port |-> port, status |-> status]

\* project_files without a row for any path of the session
NoVersions == [p \in Paths |-> 0]

\* no row in project_sessions
NoRecord ==
    [exists |-> FALSE, sandbox_id |-> NoCid, sandbox_url |-> NoUrl,
     status |-> "none"]

\* ProjectSession(session_id=..., meta_data=...): sandbox columns are null
NewRecord ==
    [exists |-> TRUE, sandbox_id |-> NoCid, sandbox_url |-> NoUrl,
     status |-> "created"]

\* a row written by an earlier server run, naming that run's container
StaleRecord ==
    [exists |-> TRUE, sandbox_id |-> OldCid, sandbox_url |-> Url(BasePort),
     status |-> "active"]

OldContainer ==
    [id |-> OldCid, name |-> ContainerName("s1", 0), port |-> BasePort]

\* docker run -p {port}:3000 --name sandbox-{session_id}-...: what a
\* container was started with
RunWith(port, sid) == [port |-> port, sid |-> sid]
NotRun == RunWith(0, "none")

\* no orchestrator method has been called directly
NoCall ==
    [n |-> 0, op |-> "none", cid |-> NoCid, ret |-> FALSE,
     data |-> NoBinding, files |-> [p \in Paths |-> Absent],
     again |-> FALSE, order |-> <<>>, k |-> 0, ok |-> {}, a |-> NoAgent,
     was |-> FALSE]

VARIABLES
    active_connections,   \* ConnectionManager.active_connections
    session_agents,       \* ConnectionManager.session_agents
    nagents,              \* Agent objects constructed so far
    session_data,         \* Agent.session_data[session_id], per agent
    history,              \* Agent.history, per agent
    containers,           \* DockerSandboxManager.containers[session_id]
    ports,                \* DockerSandboxManager.ports[session_id]
    next_port,            \* DockerSandboxManager._next_port
    docker,               \* containers known to the docker daemon
    fs,                   \* file contents inside each container
    next_cid,             \* next container id the daemon hands out
    made,                 \* port and session each container was run for
    clock,                \* int(time.time())
    http,                 \* the last response of DELETE /sessions/{id}
    api,                  \* the last direct call of an orchestrator method
    project_files,        \* project_files rows: versions saved per path
    db,                   \* project_sessions rows
    conn,                 \* websocket_endpoint coroutine per connection
    ini,                  \* locals of the init call a handler is running
    gen,                  \* locals of the send_feedback generator
    out,                  \* envelopes handed to manager.send_message
    obs                   \* what the current turn has read from the stream

managerVars == <<active_connections, session_agents>>
agentVars == <<nagents, session_data, history>>
sandboxVars == <<containers, ports, next_port>>
worldVars ==
    <<docker, fs, next_cid, made, clock, http, api, project_files, db>>
turnVars == <<gen, obs>>
vars ==
    <<active_connections, session_agents, nagents, session_data, history,
      containers, ports, next_port, docker, fs, next_cid, made, clock, http, api,
      project_files, db,
      conn, ini, gen, out, obs>>

(***************************************************************************)
(* Handler and generator locals.                                           *)
(***************************************************************************)
NoFiles == [p \in Paths |-> Absent]

IdleConn == [pc |-> "new", sid |-> "none", agent |-> NoAgent,
             open |-> FALSE, turns |-> 0]

IdleIni ==
    [name |-> ContainerName("none", 0), port |-> 0, pre |-> NoBinding,
     db_cid |-> NoCid, calls |-> {}, connect_failed |-> FALSE,
     gone |-> FALSE, created |-> NoCid, recorded |-> NoBinding,
     ret |-> "none", runs |-> 0, prev |-> "none", raced |-> FALSE,
     attempts |-> 0, cleaned |-> "none"]

NoPartial == [state |-> "none", value |-> "none", files |-> <<>>]

IdleGen ==
    [pc |-> "idle", feedback |-> "none", sent_plan |-> FALSE,
     new_code_map |-> NoFiles, order |-> <<>>, plan_msg_id |-> 0,
     file_msg_id |-> 0, cur |-> NoPartial, fi |-> 0, uploads |-> 0,
     ui |-> 0]

IdleObs ==
    [n |-> 0, plans |-> <<>>, first_seen |-> [p \in Paths |-> 0],
     last_content |-> [p \in Paths |-> Absent], failed |-> "no",
     files_before_final |-> FALSE, attached |-> FALSE, fs0 |-> NoFiles,
     upload_at |-> 0, upload_n |-> 0, binding0 |-> NoBinding,
     prev_binding |-> NoBinding, after_failure |-> FALSE,
     hist0 |-> <<>>, other |-> "none"]

(***************************************************************************)
(* State after construction of the server process.  The in-memory          *)
(* registries are empty; the database and the docker daemon outlive the    *)
(* process, so a row and a container of an earlier run may be present.     *)
(***************************************************************************)
InitMemory ==
    /\ active_connections = [s \in Sessions |-> NoConn]
    /\ session_agents = [s \in Sessions |-> NoAgent]
    /\ nagents = 0
    /\ session_data = [a \in AgentIds |-> NoBinding]
    /\ history = [a \in AgentIds |-> <<>>]
    /\ containers = [a \in AgentIds |-> NoCid]
    /\ ports = [a \in AgentIds |-> 0]
    /\ next_port = [a \in AgentIds |-> BasePort]
    /\ next_cid = OldCid + 1
    /\ made = [i \in 1..MaxContainers |->
                IF i = OldCid THEN RunWith(BasePort, "s1") ELSE NotRun]
    /\ clock = 0
    /\ http = "none"
    /\ api = NoCall
    /\ project_files = [s \in Sessions |-> NoVersions]
    /\ conn = [c \in Conns |-> IdleConn]
    /\ ini = [c \in Conns |-> IdleIni]
    /\ gen = [c \in Conns |-> IdleGen]
    /\ out = [c \in Conns |-> <<>>]
    /\ obs = [c \in Conns |-> IdleObs]

Init ==
    /\ InitMemory
    /\ db \in {[s \in Sessions |-> NoRecord],
               [s \in Sessions |-> IF s = "s1" THEN StaleRecord ELSE NoRecord]}
    /\ docker \in {{}, {OldContainer}}
    /\ fs = [i \in 1..MaxContainers |-> NoFiles]

InitFresh ==
    /\ InitMemory
    /\ db = [s \in Sessions |-> NoRecord]
    /\ docker = {}
    /\ fs = [i \in 1..MaxContainers |-> NoFiles]


(***************************************************************************)
(* ConnectionManager (websocket_server.py).                                *)
(***************************************************************************)
\* manager.disconnect(session_id): drops whatever is registered for it
Disconnected(sid) == [active_connections EXCEPT ![sid] = NoConn]

\* line 24 without its test: every connection gets an agent of its own
NeedsAgentAlways(s) == TRUE

\* line 24: session_id not in self.session_agents
NeedsAgent(s) == session_agents[s] = NoAgent

\* websocket_endpoint start: manager.connect(websocket, session_id)
Connect(c, s) ==
    /\ conn[c].pc = "new"
    /\ active_connections' = [active_connections EXCEPT ![s] = c]
    /\ IF NeedsAgent(s)
       THEN /\ nagents < MaxAgents
            /\ nagents' = nagents + 1
            /\ session_agents' = [session_agents EXCEPT ![s] = nagents + 1]
       ELSE UNCHANGED <<nagents, session_agents>>
    /\ conn' = [conn EXCEPT ![c] =
                  [pc |-> "recv", sid |-> s, agent |-> session_agents'[s],
                   open |-> TRUE, turns |-> 0]]
    /\ UNCHANGED <<session_data, history, sandboxVars, worldVars, ini,
                   turnVars, out>>

\* lines 189-192 with the TODO carried out: the container the agent is
\* bound to is removed
SandboxCleanupDone(s) ==
    LET b == session_data[session_agents[s]] IN
    docker' = {k \in docker : b = NoBinding \/ k.id # b.sandbox_id}

\* lines 189-192: "TODO: Add proper sandbox cleanup", pass
SandboxCleanup(s) == UNCHANGED docker

\* DELETE /sessions/{session_id} of a session the manager has an agent
\* for: the agent is forgotten, the channel is deregistered
CleanupSession(s) ==
    /\ session_agents[s] # NoAgent
    /\ SandboxCleanup(s)
    /\ session_agents' = [session_agents EXCEPT ![s] = NoAgent]
    /\ active_connections' = Disconnected(s)
    /\ http' = "cleaned"
    /\ UNCHANGED <<agentVars, sandboxVars, fs, next_cid, made, clock, project_files, api,
                   db, conn, ini, turnVars, out>>

\* the same request for a session the manager has no agent for: 404
CleanupUnknown(s) ==
    /\ session_agents[s] = NoAgent
    /\ http' = "not_found"
    /\ UNCHANGED <<managerVars, agentVars, sandboxVars, docker, fs, next_cid,
                   made, clock, project_files, api, db, conn, ini, turnVars, out>>

\* a handler that takes the next client message while the previous one
\* is still being handled
AtReceiveAnytime(c) == conn[c].pc \notin {"new", "closed"}

\* line 79: the handler is suspended in `await websocket.receive_text()`,
\* which it reaches only at the top of the loop of line 76
AtReceive(c) == conn[c].pc = "recv"

\* the client closes its end of the socket
ClientClose(c) ==
    /\ conn[c].pc \notin {"new", "closed"}
    /\ conn[c].open
    /\ conn' = [conn EXCEPT ![c].open = FALSE]
    /\ UNCHANGED <<managerVars, agentVars, sandboxVars, worldVars, ini,
                   turnVars, out>>

\* receive_text raises WebSocketDisconnect: manager.disconnect, handler ends
HandlerDisconnect(c) ==
    /\ conn[c].pc = "recv"
    /\ ~conn[c].open
    /\ active_connections' = Disconnected(conn[c].sid)
    /\ conn' = [conn EXCEPT ![c].pc = "closed"]
    /\ UNCHANGED <<session_agents, agentVars, sandboxVars, worldVars, ini,
                   turnVars, out>>

(***************************************************************************)
(* Message.new and manager.send_message.                                   *)
(***************************************************************************)
\* Message.new(type, data, id, session_id).to_dict(); a missing session_id
\* becomes a random uuid, which is no session's id
Message(type, text, err, id, sid) ==
    [type |-> type, text |-> text, err |-> err, id |-> id, sid |-> sid,
     binding |-> NoBinding, exists |-> FALSE]

RandomSid == "uuid4"

\* what send_message(session_id, message) can do with a message:
\*   no registration            -> the message is dropped
\*   registered, socket open    -> delivered
\*   registered, peer has closed-> send_text raises, or the frame is lost
\* send_text fired without being awaited: a frame can get lost on an open
\* socket
SendOutcomesUnawaited(sid) ==
    IF active_connections[sid] = NoConn THEN {"dropped"}
    ELSE IF conn[active_connections[sid]].open THEN {"delivered", "lost"}
    ELSE {"raised", "lost"}

SendOutcomes(sid) ==
    IF active_connections[sid] = NoConn THEN {"dropped"}
    ELSE IF conn[active_connections[sid]].open THEN {"delivered"}
    ELSE {"raised", "lost"}

\* the entry `out` keeps of a message handed to send_message; k is the
\* number of partials the generator had read when it produced the message
Sent(msg, outcome, sid, k) ==
    [msg |-> msg, outcome |-> outcome, to |-> active_connections[sid],
     k |-> k]

(***************************************************************************)
(* Agent.init / Agent.create_app_environment (agent.py 73-122) with        *)
(* DockerSandboxManager.create_sandbox / connect_sandbox.                  *)
(***************************************************************************)
\* init lines 77-82: the row is created when it is missing
WithRecord(d, sid) ==
    IF d[sid].exists THEN d ELSE [d EXCEPT ![sid] = NewRecord]

\* update_project_session(session_id, sandbox_id, sandbox_url, status):
\* changes the row only when the row exists
UpdateRecord(d, sid, data) ==
    IF d[sid].exists
    THEN [d EXCEPT ![sid] =
            [exists |-> TRUE, sandbox_id |-> data.sandbox_id,
             sandbox_url |-> data.url, status |-> "active"]]
    ELSE d

\* an INIT response that always reports a resumed session
InitResponseResumed(c, binding, exists) ==
    [type |-> "init", text |-> "", err |-> FALSE, id |-> 1,
     sid |-> conn[c].sid, binding |-> binding, exists |-> TRUE]

\* websocket_endpoint INIT branch, lines 96-105: session_data and the flag
InitResponse(c, binding, exists) ==
    [type |-> "init", text |-> "", err |-> FALSE, id |-> 1,
     sid |-> conn[c].sid, binding |-> binding, exists |-> exists]

\* lines 107-116
InitErrorResponse(c) ==
    [type |-> "init", text |-> "", err |-> TRUE, id |-> 1,
     sid |-> conn[c].sid, binding |-> NoBinding, exists |-> FALSE]

\* a handler that lets every exception reach the outer except clause
AfterSendDisconnects(c, outcome) ==
    /\ conn' = [conn EXCEPT ![c].pc = "closed"]
    /\ active_connections' = Disconnected(conn[c].sid)

\* the handler after a send: back to receive_text, or, when send_text
\* raised, through the except clauses (each of which sends and raises
\* again) to manager.disconnect
AfterSend(c, outcome) ==
    IF outcome = "raised"
    THEN /\ conn' = [conn EXCEPT ![c].pc = "closed"]
         /\ active_connections' = Disconnected(conn[c].sid)
    ELSE /\ conn' = [conn EXCEPT ![c].pc = "recv"]
         /\ UNCHANGED active_connections

\* line 87 without its test: every init provisions
AlreadyBoundNever(a) == FALSE

\* create_app_environment line 87: session_id in self.session_data
AlreadyBound(a) == session_data[a] # NoBinding

\* a handler is inside create_app_environment, past the test of line 87
\* and before it has recorded or raised
Provisioning(c) ==
    conn[c].pc \in {"connecting", "precleanup", "getport", "run",
                    "devserver", "failcleanup"}

\* INIT received; create_app_environment line 87 onwards.  The generator
\* of an earlier user message is gone by now.
RecvInit(c) ==
    LET a == conn[c].agent
        sid == conn[c].sid
        call == [IdleIni EXCEPT
                   !.pre = session_data[a],
                   !.prev = ini[c].ret,
                   !.raced = /\ ~AlreadyBound(a)
                             /\ \E d \in Conns \ {c} :
                                  conn[d].agent = a /\ Provisioning(d)]
    IN
    /\ AtReceive(c)
    /\ conn[c].open
    /\ IF AlreadyBound(a)
       THEN \* line 122: return True; init 77-84; response sent
            /\ db' = WithRecord(db, sid)
            /\ \E o \in SendOutcomes(sid) :
                 /\ out' = [out EXCEPT ![c] =
                      <<Sent(InitResponse(c, session_data[a], TRUE), o, sid, 0)>>]
                 /\ AfterSend(c, o)
            /\ ini' = [ini EXCEPT ![c] =
                 [call EXCEPT !.ret = "true", !.recorded = session_data[a]]]
            /\ UNCHANGED <<clock, project_files, http, api>>
       ELSE /\ out' = [out EXCEPT ![c] = <<>>]
            /\ UNCHANGED <<active_connections, db>>
            /\ IF db[sid].exists /\ db[sid].sandbox_id # NoCid
               THEN \* line 94: connect_existing_sandbox
                    /\ conn' = [conn EXCEPT ![c].pc = "connecting"]
                    /\ ini' = [ini EXCEPT ![c] =
                         [call EXCEPT !.db_cid = db[sid].sandbox_id,
                                      !.calls = {"connect"}]]
               ELSE \* line 105: create_sandbox, lines 365-370
                    /\ conn' = [conn EXCEPT ![c].pc = "precleanup"]
                    /\ ini' = [ini EXCEPT ![c] =
                         [call EXCEPT !.name = ContainerName(sid, clock),
                                      !.calls = {"create"}]]
            /\ UNCHANGED <<clock, project_files, http, api>>
    /\ gen' = [gen EXCEPT ![c] = IdleGen]
    /\ obs' = [obs EXCEPT ![c] = IdleObs]
    /\ UNCHANGED <<session_agents, agentVars, sandboxVars, docker, fs,
                   next_cid, made>>

\* connect_sandbox that trusts docker inspect alone
ConnectSucceedsByInspect(a, cid) == \E k \in docker : k.id = cid

\* connect_sandbox without its checks: the row's sandbox is taken as is
ConnectSucceedsUnchecked(a, cid) == TRUE

\* connect_sandbox lines 420-441: docker inspect succeeds and the
\* orchestrator's own records name the sandbox with a port
ConnectSucceeds(a, cid) ==
    /\ \E k \in docker : k.id = cid
    /\ containers[a] = cid
    /\ ports[a] # 0

\* connect_sandbox (416-453): docker inspect, then the orchestrator's own
\* records; agent.py 97-99 on success, 100-105 on failure
ConnectResult(c) ==
    LET a == conn[c].agent
        sid == conn[c].sid
        cid == ini[c].db_cid
        gone == ~\E k \in docker : k.id = cid
    IN
    /\ conn[c].pc = "connecting"
    /\ IF ConnectSucceeds(a, cid)
       THEN LET data == SandboxData(cid, sid, ports[a], "connected") IN
            /\ session_data' = [session_data EXCEPT ![a] = data]
            /\ db' = WithRecord(db, sid)
            /\ ini' = [ini EXCEPT ![c].ret = "true", ![c].gone = gone,
                                  ![c].recorded = data]
            /\ \E o \in SendOutcomes(sid) :
                 /\ out' = [out EXCEPT ![c] =
                              <<Sent(InitResponse(c, data, TRUE), o, sid, 0)>>]
                 /\ AfterSend(c, o)
       ELSE /\ conn' = [conn EXCEPT ![c].pc = "precleanup"]
            /\ ini' = [ini EXCEPT ![c].name = ContainerName(sid, clock),
                                  ![c].calls = @ \cup {"create"},
                                  ![c].connect_failed = TRUE,
                                  ![c].gone = gone]
            /\ UNCHANGED <<session_data, db, out, active_connections>>
    /\ UNCHANGED <<session_agents, nagents, history, sandboxVars, docker, fs,
                   next_cid, made, clock, project_files, http, api, turnVars>>

\* a cleanup by name that removes nothing
RemoveNamedNothing(name) == docker

\* _cleanup_existing_container(container_name): docker stop, docker rm -f
RemoveNamed(name) == {k \in docker : k.name # name}

\* a loop that goes on until the removal succeeds
LastAttemptNever(n) == FALSE

\* line 99, for attempt in range(max_retries): attempt n was the last one
LastAttempt(n) == n >= MaxRetries

\* one pass of the loop of _cleanup_existing_container (99-128): docker
\* stop, docker rm -f; rc0 is whether docker rm exits with 0 (when it does
\* not, or when the client cannot be started, nothing is removed).  The
\* method returns after a removal that succeeded and after the last
\* attempt; create_sandbox goes on with _get_next_port (line 372)
CleanupAttempt(c, rc0) ==
    LET n == ini[c].attempts + 1
        name == ini[c].name
        over == rc0 \/ LastAttempt(n)
    IN
    /\ conn[c].pc = "precleanup"
    /\ docker' = IF rc0 THEN RemoveNamed(name) ELSE docker
    /\ ini' = [ini EXCEPT
                 ![c].attempts = n,
                 ![c].cleaned =
                    IF ~rc0 THEN (IF over THEN "gave_up" ELSE "none")
                    ELSE IF \E k \in docker : k.name = name THEN "removed"
                    ELSE "absent"]
    /\ conn' = [conn EXCEPT ![c].pc = IF over THEN "getport" ELSE @]
    /\ UNCHANGED <<managerVars, agentVars, sandboxVars, fs, next_cid, made,
                   clock, project_files, http, api, db, turnVars, out>>

\* create_sandbox line 370 on a daemon whose docker rm -f succeeds
PreCleanup(c) == CleanupAttempt(c, TRUE)

\* host ports that netstat -tuln lists: those published by containers
BoundPorts == {k.port : k \in docker}

\* _is_port_available(port)
IsPortAvailable(port) == port \notin BoundPorts

\* a counter that stays on the candidate it handed out
NextCandidateSame(port) == port

\* line 68: self._next_port += 1
NextCandidate(port) == port + 1

\* _get_next_port: one round of the loop (candidate, increment, probe)
GetNextPort(c) ==
    LET a == conn[c].agent
        port == next_port[a]
    IN
    /\ conn[c].pc = "getport"
    /\ port < BasePort + MaxProbes
    /\ next_port' = [next_port EXCEPT ![a] = NextCandidate(port)]
    /\ IF IsPortAvailable(port)
       THEN /\ ini' = [ini EXCEPT ![c].port = port]
            /\ conn' = [conn EXCEPT ![c].pc = "run"]
       ELSE UNCHANGED <<ini, conn>>
    /\ UNCHANGED <<managerVars, agentVars, containers, ports, worldVars,
                   turnVars, out>>

\* docker run -d -p {port}:3000 --name {name}: the daemon refuses a name or
\* a host port that is taken
DockerAccepts(name, port) ==
    /\ \A k \in docker : k.name # name
    /\ port \notin BoundPorts

\* create_sandbox lines 375-393; `ok` is whether the daemon is able to run
\* the image at all
DockerRun(c, ok) ==
    LET a == conn[c].agent IN
    /\ conn[c].pc = "run"
    /\ IF ok /\ DockerAccepts(ini[c].name, ini[c].port)
       THEN /\ next_cid <= MaxContainers
            /\ docker' = docker \cup
                 {[id |-> next_cid, name |-> ini[c].name, port |-> ini[c].port]}
            /\ next_cid' = next_cid + 1
            /\ made' = [made EXCEPT ![next_cid] =
                          RunWith(ini[c].port, conn[c].sid)]
            /\ containers' = [containers EXCEPT ![a] = next_cid]
            /\ ports' = [ports EXCEPT ![a] = ini[c].port]
            /\ conn' = [conn EXCEPT ![c].pc = "devserver"]
            /\ ini' = [ini EXCEPT ![c].created = next_cid,
                                  ![c].runs = @ + 1]
       ELSE \* line 389 raises; 410-414
            /\ conn' = [conn EXCEPT ![c].pc = "failcleanup"]
            /\ ini' = [ini EXCEPT ![c].runs = @ + 1]
            /\ UNCHANGED <<docker, next_cid, made, containers, ports>>
    /\ UNCHANGED <<managerVars, agentVars, next_port, fs, clock, project_files, http, api, db,
                   turnVars, out>>

\* a return value that takes the id from the orchestrator's shared record
CreatedDataFromRecords(c) ==
    SandboxData(containers[conn[c].agent], conn[c].sid, ini[c].port, "ready")

\* create_sandbox 404-412: the dict built from the call's own container_id
\* and port
CreatedData(c) ==
    SandboxData(ini[c].created, conn[c].sid, ini[c].port, "ready")

\* _start_dev_server returns (it never raises); create_sandbox 400-408;
\* agent.py 106-117; init 77-84; the INIT response
StartDevServer(c) ==
    LET a == conn[c].agent
        sid == conn[c].sid
        data == CreatedData(c)
    IN
    /\ conn[c].pc = "devserver"
    /\ session_data' = [session_data EXCEPT ![a] = data]
    /\ db' = WithRecord(UpdateRecord(db, sid, data), sid)
    /\ ini' = [ini EXCEPT ![c].ret = "false", ![c].recorded = data]
    /\ \E o \in SendOutcomes(sid) :
         /\ out' = [out EXCEPT ![c] =
                      <<Sent(InitResponse(c, data, FALSE), o, sid, 0)>>]
         /\ AfterSend(c, o)
    /\ UNCHANGED <<session_agents, nagents, history, sandboxVars, docker, fs,
                   next_cid, made, clock, project_files, http, api, turnVars>>

\* a binding with status error
ErrorBinding(sid) == SandboxData(NoCid, sid, 0, "error")

\* an except clause that records the failure as the session's binding
AfterCreateFailedRecorded(a, sid) ==
    [session_data EXCEPT ![a] = ErrorBinding(sid)]

\* a failed create that drops the binding of every session of the process
AfterCreateFailedResetAll(a, sid) ==
    [b \in DOMAIN session_data |-> NoBinding]

\* agent.py 118-120: the except clause logs and raises; session_data is
\* not written
AfterCreateFailed(a, sid) == session_data

\* create_sandbox 410-414: cleanup by name, re-raise; agent.py 118-120;
\* websocket_endpoint 107-116
CreateFailed(c) ==
    LET sid == conn[c].sid IN
    /\ conn[c].pc = "failcleanup"
    /\ docker' = RemoveNamed(ini[c].name)
    /\ session_data' = AfterCreateFailed(conn[c].agent, sid)
    /\ ini' = [ini EXCEPT ![c].ret = "raised"]
    /\ \E o \in SendOutcomes(sid) :
         /\ out' = [out EXCEPT ![c] =
                      <<Sent(InitErrorResponse(c), o, sid, 0)>>]
         /\ AfterSend(c, o)
    /\ UNCHANGED <<session_agents, nagents, history, sandboxVars, fs,
                   next_cid, made, clock, project_files, http, api, db, turnVars>>

\* time passes
Tick ==
    /\ clock < MaxClock
    /\ clock' = clock + 1
    /\ UNCHANGED <<managerVars, agentVars, sandboxVars, docker, fs, next_cid,
                   made, http, api, project_files, db, conn, ini, turnVars,
                   out>>


(***************************************************************************)
(* Agent.send_feedback (agent.py 183-238) driven by                        *)
(* ConnectionManager.send_stream (websocket_server.py 38-42).              *)
(*                                                                         *)
(* send_stream resumes the generator, hands the yielded message to         *)
(* send_message and awaits send_text; the generator's own awaits are       *)
(* load_code and edit_code.  `for partial in stream` is a synchronous      *)
(* read.                                                                   *)
(***************************************************************************)
\* str(uuid.uuid4()): the n-th value drawn while one client message is
\* handled; values never repeat
Uuid4(n) == n

\* line 199: plan_msg_id = str(uuid.uuid4())
PlanMsgId == Uuid4(2)

\* line 200 reusing the plan's id
FileMsgIdShared == Uuid4(2)

\* line 200: file_msg_id = str(uuid.uuid4())
FileMsgId == Uuid4(3)

\* the generator is suspended at a yield whose send_text raised, or it
\* raised itself: the exception is on its way to line 149
Raised(c, why) ==
    /\ conn' = [conn EXCEPT ![c].pc = "exc"]
    /\ obs' = [obs EXCEPT ![c].failed = why]

\* the failures of a turn that are not a failure of the channel
TurnFailures == {"stream", "load", "upload"}

\* what is known when a user message arrives: the binding and the history
\* the turn starts with, the binding the previous turn started with and
\* whether that turn failed
TurnObs(c) ==
    [IdleObs EXCEPT !.binding0 = session_data[conn[c].agent],
                    !.hist0 = history[conn[c].agent],
                    !.prev_binding = obs[c].binding0,
                    !.after_failure = obs[c].failed \in TurnFailures]

\* websocket_endpoint USER branch (118-127) and send_stream's guard; the
\* generator runs to its first yield (line 184)
RecvUser(c, f) ==
    LET sid == conn[c].sid IN
    /\ AtReceive(c)
    /\ conn[c].open
    /\ conn[c].turns < MaxTurns
    /\ IF active_connections[sid] = NoConn
       THEN \* send_stream does not iterate the generator at all
            /\ gen' = [gen EXCEPT ![c] = [IdleGen EXCEPT !.feedback = f]]
            /\ obs' = [obs EXCEPT ![c] = TurnObs(c)]
            /\ out' = [out EXCEPT ![c] = <<>>]
            /\ conn' = [conn EXCEPT ![c].turns = @ + 1]
       ELSE \E o \in SendOutcomes(sid) :
            /\ gen' = [gen EXCEPT ![c] =
                         [IdleGen EXCEPT !.feedback = f, !.pc = "load"]]
            /\ out' = [out EXCEPT ![c] =
                 <<Sent(Message("update_in_progress", "", FALSE, Uuid4(1),
                                RandomSid), o, sid, 0)>>]
            /\ obs' = [obs EXCEPT ![c] =
                 [TurnObs(c) EXCEPT !.attached = TRUE,
                                 !.failed = IF o = "raised" THEN "send"
                                            ELSE "no"]]
            /\ conn' = [conn EXCEPT ![c].turns = @ + 1,
                                    ![c].pc = IF o = "raised" THEN "exc"
                                              ELSE "turn"]
    /\ UNCHANGED <<managerVars, agentVars, sandboxVars, worldVars, ini>>

\* load_code and edit_code without their first test
UnboundNever(a) == FALSE

\* agent.py 125 and 132: session_id not in self.session_data
Unbound(a) == session_data[a] = NoBinding

\* download_files (492-518): what docker cp reads out of the container; a
\* copy that fails yields no file
Downloaded(cid) == IF cid \in DOMAIN fs THEN fs[cid] ELSE NoFiles

\* line 186: load_code (agent.py 124-129, tools.py 44-105); download_files
\* is best-effort and never raises.  Lines 188-200 follow.
LoadCode(c) ==
    LET a == conn[c].agent IN
    /\ conn[c].pc = "turn"
    /\ gen[c].pc = "load"
    /\ IF Unbound(a)
       THEN \* ValueError("No sandbox found for session ...")
            /\ Raised(c, "load")
            /\ gen' = [gen EXCEPT ![c].pc = "dead"]
       ELSE /\ gen' = [gen EXCEPT ![c].pc = "for",
                                  ![c].plan_msg_id = PlanMsgId,
                                  ![c].file_msg_id = FileMsgId]
            /\ obs' = [obs EXCEPT ![c].fs0 =
                         Downloaded(session_data[a].sandbox_id)]
            /\ UNCHANGED conn
    /\ UNCHANGED <<managerVars, agentVars, sandboxVars, worldVars, ini, out>>

\* add_to_history that keeps the plan and drops the feedback
AddToHistoryPlanOnly(h, user_feedback, agent_plan) ==
    Append(h, [role |-> "assistant", content |-> agent_plan])

\* add_to_history (149-160)
AddToHistory(h, user_feedback, agent_plan) ==
    h \o <<[role |-> "user", content |-> user_feedback],
           [role |-> "assistant", content |-> agent_plan]>>

\* the content of the last entry of `files` that names `path`
LastContent(files, path, default) ==
    LET idx == {i \in 1..Len(files) : files[i].path = path} IN
    IF idx = {} THEN default
    ELSE files[CHOOSE i \in idx : \A j \in idx : j <= i].content

\* what the turn has read, after partial p
Observe(o, p, sent_plan) ==
    [o EXCEPT
       !.n = @ + 1,
       !.plans = Append(@, [state |-> p.state, value |-> p.value]),
       !.first_seen = [q \in Paths |->
           IF @[q] = 0 /\ \E i \in 1..Len(p.files) : p.files[i].path = q
           THEN o.n + 1 ELSE @[q]],
       !.last_content = [q \in Paths |-> LastContent(p.files, q, @[q])],
       !.files_before_final =
           @ \/ (~sent_plan /\ p.state # "Complete" /\ p.files # <<>>)]

\* line 203 without `and not sent_plan`
EmitsPartialNoLatch(p, sent_plan) == p.state # "Complete"

\* line 203
EmitsPartial(p, sent_plan) == p.state # "Complete" /\ ~sent_plan

\* line 211 comparing the state with a string no partial carries
EmitsFinalNever(p, sent_plan) == FALSE

\* line 211
EmitsFinal(p, sent_plan) == p.state = "Complete" /\ ~sent_plan

\* line 224 without its test: every sighting is announced
IsNewPathAlways(code_map, path) == TRUE

\* line 224: file.path not in new_code_map
IsNewPath(code_map, path) == code_map[path] = Absent

\* where the generator goes after entry fi of the current partial
AfterEntry(files, fi) == IF fi >= Len(files) THEN "for" ELSE "files"

\* lines 202-221: the stream yields partial p; the plan phase of the loop
\* body
StreamNext(c, p) ==
    LET a == conn[c].agent
        sid == conn[c].sid
        g == gen[c]
        g1 == [g EXCEPT !.cur = p, !.fi = 1,
                        !.pc = AfterEntry(p.files, 0)]
        o1 == Observe(obs[c], p, g.sent_plan)
    IN
    /\ conn[c].pc = "turn"
    /\ g.pc = "for"
    /\ obs[c].n < MaxPartials
    /\ IF EmitsPartial(p, g.sent_plan)
       THEN \* 203-209
            \E o \in SendOutcomes(sid) :
            /\ out' = [out EXCEPT ![c] = Append(@,
                 Sent(Message("agent_partial", p.value, FALSE, g.plan_msg_id,
                              sid), o, sid, o1.n))]
            /\ gen' = [gen EXCEPT ![c] = g1]
            /\ obs' = [obs EXCEPT ![c] =
                 [o1 EXCEPT !.failed = IF o = "raised" THEN "send" ELSE @]]
            /\ conn' = [conn EXCEPT ![c].pc =
                 IF o = "raised" THEN "exc" ELSE @]
            /\ UNCHANGED history
       ELSE IF EmitsFinal(p, g.sent_plan)
       THEN \* 211-221
            \E o \in SendOutcomes(sid) :
            /\ out' = [out EXCEPT ![c] = Append(@,
                 Sent(Message("agent_final", p.value, FALSE, g.plan_msg_id,
                              sid), o, sid, o1.n))]
            /\ obs' = [obs EXCEPT ![c] =
                 [o1 EXCEPT !.failed = IF o = "raised" THEN "send" ELSE @]]
            /\ IF o = "raised"
               THEN /\ gen' = [gen EXCEPT ![c] = g1]
                    /\ conn' = [conn EXCEPT ![c].pc = "exc"]
                    /\ UNCHANGED history
               ELSE /\ gen' = [gen EXCEPT ![c] = [g1 EXCEPT !.sent_plan = TRUE]]
                    /\ history' = [history EXCEPT ![a] =
                         AddToHistory(@, g.feedback, p.value)]
                    /\ UNCHANGED conn
       ELSE /\ gen' = [gen EXCEPT ![c] = g1]
            /\ obs' = [obs EXCEPT ![c] = o1]
            /\ UNCHANGED <<out, conn, history>>
    /\ UNCHANGED <<managerVars, nagents, session_data, sandboxVars,
                   worldVars, ini>>

\* lines 223-232: one entry of partial.files
FileStep(c) ==
    LET sid == conn[c].sid
        g == gen[c]
        file == g.cur.files[g.fi]
        g1 == [g EXCEPT !.fi = @ + 1, !.pc = AfterEntry(g.cur.files, g.fi)]
    IN
    /\ conn[c].pc = "turn"
    /\ g.pc = "files"
    /\ IF IsNewPath(g.new_code_map, file.path)
       THEN \E o \in SendOutcomes(sid) :
            /\ out' = [out EXCEPT ![c] = Append(@,
                 Sent(Message("update_file", file.path, FALSE, g.file_msg_id,
                              sid), o, sid, obs[c].n))]
            /\ IF o = "raised"
               THEN /\ Raised(c, "send")
                    /\ gen' = [gen EXCEPT ![c] = g1]
               ELSE /\ gen' = [gen EXCEPT ![c] =
                         [g1 EXCEPT !.new_code_map[file.path] = file.content,
                                    !.order = Append(@, file.path)]]
                    /\ UNCHANGED <<conn, obs>>
       ELSE /\ gen' = [gen EXCEPT ![c] = g1]
            /\ UNCHANGED <<out, conn, obs>>
    /\ UNCHANGED <<managerVars, agentVars, sandboxVars, worldVars, ini>>

\* the stream raises while it is opened or read (line 193 or 202)
StreamFail(c) ==
    /\ conn[c].pc = "turn"
    /\ gen[c].pc = "for"
    /\ Raised(c, "stream")
    /\ gen' = [gen EXCEPT ![c].pc = "dead"]
    /\ UNCHANGED <<managerVars, agentVars, sandboxVars, worldVars, ini, out>>

\* upload_files that copies nothing into the container
WrittenNothing(files, order, code_map, written) == files

\* an upload that undoes its copies when one of them fails
WrittenOrRolledBack(files, order, code_map, written) ==
    [q \in Paths |->
       IF written = Len(order) /\ (\E i \in 1..written : order[i] = q)
       THEN code_map[q] ELSE files[q]]

\* upload_files (455-490) writes the entries of file_map in dict order and
\* stops at the first docker cp that fails: the first `written` entries
\* are in the container
Written(files, order, code_map, written) ==
    [q \in Paths |->
       IF \E i \in 1..written : order[i] = q THEN code_map[q] ELSE files[q]]

\* agent.py 138-145: save_project_file for every entry of code_map; each
\* call adds a row whose version is the latest of the path plus one
\* (database.py 142-169)
Saved(pf, sid, order) ==
    [pf EXCEPT ![sid] =
       [p \in Paths |->
          IF \E i \in 1..Len(order) : order[i] = p THEN @[p] + 1 ELSE @[p]]]

\* an edit_code that saves the versions before it looks at the upload
AfterFailedUploadSaved(pf, sid, order) == Saved(pf, sid, order)

\* agent.py 136: sandbox_tools.edit_code raises, the loop of 139-145 is
\* not reached
AfterFailedUpload(pf, sid, order) == pf

\* the stream is exhausted: line 234 edit_code (agent.py 131-147,
\* tools.py 127-143, upload_files); `written` is how many docker cp calls
\* succeed; then lines 236-238
StreamEnd(c, written) ==
    LET a == conn[c].agent
        sid == conn[c].sid
        g == gen[c]
        cid == session_data[a].sandbox_id
        running == \E k \in docker : k.id = cid
        n == Len(g.order)
    IN
    /\ conn[c].pc = "turn"
    /\ g.pc = "for"
    /\ written \in 0..n
    /\ running \/ written = 0
    /\ IF Unbound(a)
       THEN /\ written = 0
            /\ Raised(c, "upload")
            /\ gen' = [gen EXCEPT ![c].pc = "dead"]
            /\ UNCHANGED <<fs, out, project_files>>
       ELSE /\ fs' = [fs EXCEPT ![cid] = Written(@, g.order, g.new_code_map,
                                                 written)]
            /\ IF written = n /\ (running \/ n = 0)
               THEN \E o \in SendOutcomes(sid) :
                    /\ project_files' = Saved(project_files, sid, g.order)
                    /\ out' = [out EXCEPT ![c] = Append(@,
                         Sent(Message("update_completed", "", FALSE, Uuid4(4),
                                      sid), o, sid, obs[c].n))]
                    /\ gen' = [gen EXCEPT ![c].pc = "done", ![c].uploads = 1]
                    /\ obs' = [obs EXCEPT
                         ![c].failed = IF o = "raised" THEN "send" ELSE @,
                         ![c].upload_at = Len(out[c]),
                         ![c].upload_n = obs[c].n]
                    /\ conn' = [conn EXCEPT ![c].pc =
                         IF o = "raised" THEN "exc" ELSE "recv"]
               ELSE \* tools.py 135-136: "Failed to upload files to sandbox"
                    /\ project_files' =
                         AfterFailedUpload(project_files, sid, g.order)
                    /\ conn' = [conn EXCEPT ![c].pc = "exc"]
                    /\ obs' = [obs EXCEPT
                         ![c].failed = "upload",
                         ![c].upload_at = Len(out[c]),
                         ![c].upload_n = obs[c].n]
                    /\ gen' = [gen EXCEPT ![c].pc = "dead", ![c].uploads = 1]
                    /\ UNCHANGED out
    /\ UNCHANGED <<managerVars, agentVars, sandboxVars, docker, next_cid, made,
                   clock, http, api, db, ini>>

(***************************************************************************)
(* The same commit, one docker cp at a time: upload_files awaits each      *)
(* copy, and another handler of the session can run in between.            *)
(***************************************************************************)
\* lines 236-238 after a commit that succeeded
Completed(c) ==
    LET sid == conn[c].sid IN
    \E o \in SendOutcomes(sid) :
      /\ out' = [out EXCEPT ![c] = Append(@,
           Sent(Message("update_completed", "", FALSE, Uuid4(4), sid),
                o, sid, obs[c].n))]
      /\ gen' = [gen EXCEPT ![c].pc = "done", ![c].ui = Len(gen[c].order)]
      /\ obs' = [obs EXCEPT ![c].failed = IF o = "raised" THEN "send" ELSE @]
      /\ conn' = [conn EXCEPT ![c].pc = IF o = "raised" THEN "exc" ELSE "recv"]

\* the stream is exhausted: line 234, edit_code up to the first copy
UploadStart(c) ==
    LET a == conn[c].agent
        g == gen[c]
    IN
    /\ conn[c].pc = "turn"
    /\ g.pc = "for"
    /\ IF Unbound(a)
       THEN /\ Raised(c, "upload")
            /\ gen' = [gen EXCEPT ![c].pc = "dead"]
            /\ UNCHANGED out
       ELSE IF g.order = <<>>
       THEN Completed(c)
       ELSE /\ gen' = [gen EXCEPT ![c].pc = "upload", ![c].ui = 0,
                                  ![c].uploads = 1]
            /\ UNCHANGED <<out, obs, conn>>
    /\ UNCHANGED <<managerVars, agentVars, sandboxVars, worldVars, ini>>

\* upload_files 457-483: one file of file_map; `ok` is whether docker cp
\* succeeds on a running container
UploadFile(c, ok) ==
    LET a == conn[c].agent
        g == gen[c]
        cid == session_data[a].sandbox_id
        running == \E k \in docker : k.id = cid
        q == g.order[g.ui + 1]
    IN
    /\ conn[c].pc = "turn"
    /\ g.pc = "upload"
    /\ IF ok /\ running
       THEN /\ fs' = [fs EXCEPT ![cid][q] = g.new_code_map[q]]
            /\ IF g.ui + 1 = Len(g.order)
               THEN /\ Completed(c)
                    /\ project_files' =
                         Saved(project_files, conn[c].sid, g.order)
               ELSE /\ gen' = [gen EXCEPT ![c].ui = @ + 1]
                    /\ UNCHANGED <<out, obs, conn, project_files>>
       ELSE /\ Raised(c, "upload")
            /\ gen' = [gen EXCEPT ![c].pc = "dead"]
            /\ project_files' =
                 AfterFailedUpload(project_files, conn[c].sid, g.order)
            /\ UNCHANGED <<fs, out>>
    /\ UNCHANGED <<managerVars, agentVars, sandboxVars, docker, next_cid,
                   made, clock, http, api, db, ini>>

\* lines 153-157 with a plain payload instead of {"error": ...}
ErrorEnvelopeNoPayload(sid) ==
    Message("agent_final", "", FALSE, Uuid4(5), sid)

\* websocket_endpoint 153-157
ErrorEnvelope(sid) == Message("agent_final", "", TRUE, Uuid4(5), sid)

\* websocket_endpoint 149-158: the error envelope is sent
HandlerError(c) ==
    LET sid == conn[c].sid IN
    /\ conn[c].pc = "exc"
    /\ \E o \in SendOutcomes(sid) :
         /\ out' = [out EXCEPT ![c] = Append(@,
              Sent(ErrorEnvelope(sid), o, sid, obs[c].n))]
         /\ AfterSend(c, o)
    /\ UNCHANGED <<session_agents, agentVars, sandboxVars, worldVars, ini,
                   turnVars>>

\* client message types that are none of init, user and load_code; "missing"
\* is a message without a type (message.get("type") is None)
OtherTypes == {"ping", "edit_code", "bogus", "missing"}

\* the pong of line 141
Pong(sid) == Message("ping", "", FALSE, Uuid4(1), sid)

\* the if/elif chain of 88-146 as it reads: a ping branch and a final else
\* that only logs
BranchWithPing(t) ==
    IF t \in {"init", "user", "load_code"} THEN t
    ELSE IF t = "ping" THEN "ping"
    ELSE "unknown"

\* the if/elif chain of 88-146 as it runs: MessageType (agent.py 16-26) has
\* no member PING, so the test of line 139 raises AttributeError for every
\* type that is none of the first three
Branch(t) ==
    IF t \in {"init", "user", "load_code"} THEN t
    ELSE "attribute_error"

\* a client message of another type is received and handled (lines 79-158)
RecvOther(c, t) ==
    LET sid == conn[c].sid
        b == Branch(t)
    IN
    /\ AtReceive(c)
    /\ conn[c].open
    /\ b \notin {"init", "user", "load_code"}
    /\ gen' = [gen EXCEPT ![c] = IdleGen]
    /\ obs' = [obs EXCEPT ![c] = [IdleObs EXCEPT !.other = t]]
    /\ IF b = "unknown"
       THEN \* line 145: logger.warning
            /\ out' = [out EXCEPT ![c] = <<>>]
            /\ UNCHANGED <<conn, active_connections>>
       ELSE \E o \in SendOutcomes(sid) :
            /\ out' = [out EXCEPT ![c] =
                 <<Sent(IF b = "ping" THEN Pong(sid) ELSE ErrorEnvelope(sid),
                        o, sid, 0)>>]
            /\ AfterSend(c, o)
    /\ UNCHANGED <<session_agents, agentVars, sandboxVars, worldVars, ini>>

(***************************************************************************)
(* DockerSandboxManager methods called on the orchestrator of agent a by   *)
(* a caller other than the agent (sandbox_manager.py 416-571).             *)
(***************************************************************************)
\* a sandbox_id a caller can hold: one the daemon has handed out
Known(cid) == cid \in 1..(next_cid - 1)

\* docker rm -f {sandbox_id}
RemovedById(cid) == {k \in docker : k.id # cid}

\* a docker client for which removing what does not exist is an error
RmForceOkIfPresent(cid) == \E k \in docker : k.id = cid

\* line 567, proc.returncode == 0: the exit status of docker rm -f is 0,
\* with --force a container that does not exist is not an error (docker
\* cli 20.10 and later)
RmForceOk(cid) == TRUE

\* lines 556-560: a session whose recorded container id is sandbox_id
RecordedAs(a, cid) == containers[a] = cid

\* the session_id under which create_sandbox line 392 recorded the id
RecordedSid(a) ==
    IF containers[a] \in DOMAIN made THEN made[containers[a]].sid
    ELSE "none"

\* a cleanup that forgets the sandbox only when docker removed it
DropsRecordsOnSuccess(a, cid, rc0) == RecordedAs(a, cid) /\ rc0

\* lines 555-565: the records are dropped when a session is recorded with
\* the id, whatever docker rm returned
DropsRecords(a, cid, rc0) == RecordedAs(a, cid)

\* cleanup_sandbox (543-571); rc0 is whether docker rm -f exits with 0, a
\* container it fails to remove stays
CleanupSandboxRm(a, cid, rc0) ==
    /\ a <= nagents
    /\ Known(cid)
    /\ api.n < MaxCalls
    /\ docker' = IF rc0 THEN RemovedById(cid) ELSE docker
    /\ IF DropsRecords(a, cid, rc0)
       THEN /\ containers' = [containers EXCEPT ![a] = NoCid]
            /\ ports' = [ports EXCEPT ![a] = 0]
       ELSE UNCHANGED <<containers, ports>>
    /\ api' = [NoCall EXCEPT
                 !.n = api.n + 1, !.op = "cleanup", !.cid = cid,
                 !.ret = rc0, !.a = a, !.was = RecordedAs(a, cid),
                 !.again = (api.op = "cleanup" /\ api.cid = cid)]
    /\ UNCHANGED <<managerVars, agentVars, next_port, fs, next_cid, made,
                   clock, project_files, http, db, conn, ini, turnVars, out>>

\* cleanup_sandbox (543-571) with a docker client whose rm -f succeeds
CleanupSandbox(a, cid) == CleanupSandboxRm(a, cid, RmForceOk(cid))

\* get_url 531-539: a session is recorded with the id and has a port
UrlFound(a, cid) == RecordedAs(a, cid) /\ ports[a] # 0

\* get_url (529-541): returns the url or raises "Sandbox ... not found"
GetUrl(a, cid) ==
    /\ a <= nagents
    /\ Known(cid)
    /\ api.n < MaxCalls
    /\ api' = [NoCall EXCEPT
                 !.n = api.n + 1, !.op = "get_url", !.cid = cid, !.a = a,
                 !.ret = UrlFound(a, cid),
                 !.was = (api.op = "cleanup" /\ api.cid = cid /\ api.a = a)]
    /\ UNCHANGED <<managerVars, agentVars, sandboxVars, docker, fs, next_cid,
                   made, clock, project_files, http, db, conn, ini, turnVars,
                   out>>

\* connect_sandbox (416-453)
ConnectSandbox(a, cid) ==
    LET found == ConnectSucceeds(a, cid) IN
    /\ a <= nagents
    /\ Known(cid)
    /\ api.n < MaxCalls
    /\ api' = [NoCall EXCEPT
                 !.n = api.n + 1, !.op = "connect", !.cid = cid, !.a = a,
                 !.ret = found,
                 !.was = (api.op = "cleanup" /\ api.cid = cid /\ api.a = a),
                 !.data = IF found
                          THEN SandboxData(cid, RecordedSid(a), ports[a],
                                           "connected")
                          ELSE NoBinding]
    /\ UNCHANGED <<managerVars, agentVars, sandboxVars, docker, fs, next_cid,
                   made, clock, project_files, http, db, conn, ini, turnVars, out>>

\* upload_files (455-490) of a batch of which `written` copies succeed
UploadFiles(cid, order, code_map, written) ==
    /\ api.n < MaxCalls
    /\ Known(cid)
    /\ \A i \in 1..Len(order) : code_map[order[i]] # Absent
    /\ written \in 0..Len(order)
    /\ (\E k \in docker : k.id = cid) \/ written = 0
    /\ fs' = [fs EXCEPT ![cid] = Written(@, order, code_map, written)]
    /\ api' = [NoCall EXCEPT
                 !.n = api.n + 1, !.op = "upload", !.cid = cid,
                 !.ret = (written = Len(order)),
                 !.files = code_map, !.order = order, !.k = written]
    /\ UNCHANGED <<managerVars, agentVars, sandboxVars, docker, next_cid,
                   made, clock, project_files, http, db, conn, ini, turnVars, out>>

\* docker cp {sandbox_id}:{path} succeeds: the container and the file
\* exist and the copy is one of those (`ok`) that go through
CopiedOut(cid, path, ok) ==
    /\ \E k \in docker : k.id = cid
    /\ path \in ok
    /\ fs[cid][path] # Absent

RECURSIVE DownloadLoop(_, _, _, _, _)

\* download_files whose first failed copy discards the result
DownloadLoopStrict(cid, paths, ok, i, files) ==
    IF \A j \in 1..Len(paths) : CopiedOut(cid, paths[j], ok)
    THEN [p \in Paths |->
            IF \E j \in 1..Len(paths) : paths[j] = p THEN fs[cid][p]
            ELSE Absent]
    ELSE NoFiles

\* download_files 497-512: the loop from the i-th path on; `files` is the
\* dict built so far
DownloadLoop(cid, paths, ok, i, files) ==
    IF i > Len(paths) THEN files
    ELSE DownloadLoop(cid, paths, ok, i + 1,
           IF CopiedOut(cid, paths[i], ok)
           THEN [files EXCEPT ![paths[i]] = fs[cid][paths[i]]]
           ELSE files)

\* download_files (492-518)
DownloadFiles(cid, paths, ok) ==
    /\ api.n < MaxCalls
    /\ Known(cid)
    /\ api' = [NoCall EXCEPT
                 !.n = api.n + 1, !.op = "download", !.cid = cid,
                 !.order = paths, !.ok = ok,
                 !.files = DownloadLoop(cid, paths, ok, 1, NoFiles)]
    /\ UNCHANGED <<managerVars, agentVars, sandboxVars, docker, fs, next_cid,
                   made, clock, project_files, http, db, conn, ini, turnVars, out>>

\* batches a caller uploads and path lists it asks for
CodeMaps ==
    {[p \in Paths |-> IF p = "P" THEN "A" ELSE "B"],
     [p \in Paths |-> IF p = "P" THEN "B" ELSE Absent]}
PathLists == {<<"P">>, <<"P", "Q">>, <<"Q", "P">>}

(***************************************************************************)
(* Specifications.                                                         *)
(***************************************************************************)
\* the steps of one handler that serve INIT on a daemon that runs the image
InitSteps(c) ==
    \/ RecvInit(c)
    \/ PreCleanup(c)
    \/ GetNextPort(c)
    \/ DockerRun(c, TRUE)
    \/ StartDevServer(c)

\* one client on one session of a fresh deployment whose channel stays
\* attached; the stream alphabet PartialsTurn
NextTurn ==
    \E c \in {"c1"} :
      \/ Connect(c, "s1")
      \/ InitSteps(c)
      \/ \E f \in Feedbacks : RecvUser(c, f)
      \/ LoadCode(c)
      \/ \E p \in PartialsTurn : StreamNext(c, p)
      \/ FileStep(c)
      \/ StreamFail(c)
      \/ \E w \in 0..Cardinality(Paths) : StreamEnd(c, w)
      \/ HandlerError(c)

\* the same client, whose channel can be deregistered or closed at any
\* moment; the narrow stream alphabet
NextChannel ==
    \E c \in {"c1"} :
      \/ Connect(c, "s1")
      \/ CleanupSession("s1")
      \/ ClientClose(c)
      \/ HandlerDisconnect(c)
      \/ InitSteps(c)
      \/ \E f \in Feedbacks : RecvUser(c, f)
      \/ LoadCode(c)
      \/ \E p \in PartialsNarrow : StreamNext(c, p)
      \/ FileStep(c)
      \/ StreamFail(c)
      \/ \E w \in 0..Cardinality(Paths) : StreamEnd(c, w)
      \/ HandlerError(c)

SpecChannel == InitFresh /\ [][NextChannel]_vars

SpecTurn == InitFresh /\ [][NextTurn]_vars

\* user messages each client of the shared session sends
MaxSharedTurns == 1

\* two clients that open the same session of a fresh deployment and send
\* INIT as they like, while the wall clock advances; the daemon refuses a
\* docker run only for a name or a port that is taken
NextRace ==
    \/ Tick
    \/ \E c \in Conns :
         \/ Connect(c, "s1")
         \/ InitSteps(c)
         \/ CreateFailed(c)

SpecRace == InitFresh /\ [][NextRace]_vars

\* the session each of the two clients opens when the sessions are disjoint
OwnSession(c) == IF c = "c1" THEN "s1" ELSE "s2"

\* the stream alphabet of the two-session runs: one complete answer
PartialsOne ==
    {[state |-> "Complete", value |-> "t1",
      files |-> <<FileEntry("P", "A")>>]}

\* two clients on two sessions of a fresh deployment; an INIT can fail in
\* docker run, a turn can fail in load_code, in the stream or in the upload
NextTwo ==
    \E c \in Conns :
      \/ Connect(c, OwnSession(c))
      \/ InitSteps(c)
      \/ DockerRun(c, FALSE)
      \/ CreateFailed(c)
      \/ \E f \in Feedbacks :
           conn[c].turns < MaxSharedTurns /\ RecvUser(c, f)
      \/ LoadCode(c)
      \/ \E p \in PartialsOne : StreamNext(c, p)
      \/ FileStep(c)
      \/ StreamFail(c)
      \/ \E w \in 0..Cardinality(Paths) : StreamEnd(c, w)
      \/ HandlerError(c)

SpecTwo == InitFresh /\ [][NextTwo]_vars

\* two clients that open the same session of a fresh deployment one after
\* the other, send INIT and close their sockets as they like
NextReconnect ==
    \E c \in Conns :
      \/ Connect(c, "s1")
      \/ ClientClose(c)
      \/ HandlerDisconnect(c)
      \/ InitSteps(c)
      \/ CreateFailed(c)

SpecReconnect == InitFresh /\ [][NextReconnect]_vars

\* one client that sends messages of every type, its session being
\* deregistered at any moment; one complete answer per stream
NextOther ==
    \/ CleanupSession("s1")
    \/ \E c \in {"c1"} :
         \/ Connect(c, "s1")
         \/ InitSteps(c)
         \/ \E t \in OtherTypes : RecvOther(c, t)
         \/ \E f \in Feedbacks : RecvUser(c, f)
         \/ LoadCode(c)
         \/ \E p \in PartialsOne : StreamNext(c, p)
         \/ FileStep(c)
         \/ StreamFail(c)
         \/ \E w \in 0..Cardinality(Paths) : StreamEnd(c, w)
         \/ HandlerError(c)

SpecOther == InitFresh /\ [][NextOther]_vars

\* one client whose agent provisions, and a caller that uses the methods
\* of that agent's orchestrator directly
NextOrch ==
    \/ Connect("c1", "s1")
    \/ InitSteps("c1")
    \/ ConnectResult("c1")
    \/ \E a \in AgentIds, cid \in 1..MaxContainers :
         \/ CleanupSandbox(a, cid)
         \/ ConnectSandbox(a, cid)
    \/ \E cid \in 1..MaxContainers, l \in PathLists :
         \/ \E m \in CodeMaps, w \in 0..Cardinality(Paths) :
              UploadFiles(cid, l, m, w)
         \/ \E ok \in SUBSET Paths : DownloadFiles(cid, l, ok)

SpecOrch == Init /\ [][NextOrch]_vars

\* two clients that open s1 of a deployment whose database and daemon
\* outlive the server; docker rm of the pre-create removal can fail
NextRetry ==
    \E c \in Conns :
      \/ Connect(c, "s1")
      \/ RecvInit(c)
      \/ ConnectResult(c)
      \/ \E rc0 \in BOOLEAN : CleanupAttempt(c, rc0)
      \/ GetNextPort(c)
      \/ DockerRun(c, TRUE)
      \/ StartDevServer(c)
      \/ CreateFailed(c)

SpecRetry == Init /\ [][NextRetry]_vars

\* two clients that send INIT for one session of a fresh deployment, and a
\* caller that cleans up sandboxes of the session's orchestrator
NextPorts ==
    \/ \E c \in Conns :
         \/ Connect(c, "s1")
         \/ InitSteps(c)
         \/ CreateFailed(c)
    \/ \E a \in AgentIds, cid \in 1..MaxContainers, rc0 \in BOOLEAN :
         CleanupSandboxRm(a, cid, rc0)

SpecPorts == InitFresh /\ [][NextPorts]_vars

\* one client whose agent provisions, and a caller that cleans sandboxes
\* up, docker rm failing or not, and asks for them afterwards
NextCleanup ==
    \/ Connect("c1", "s1")
    \/ InitSteps("c1")
    \/ \E a \in AgentIds, cid \in 1..MaxContainers :
         \/ \E rc0 \in BOOLEAN : CleanupSandboxRm(a, cid, rc0)
         \/ ConnectSandbox(a, cid)
         \/ GetUrl(a, cid)

SpecCleanup == InitFresh /\ [][NextCleanup]_vars

\* two clients that open the same session, the first of which initialises
\* it; the commit of a turn is taken one copy at a time
NextShared ==
    \/ InitSteps("c1")
    \/ \E c \in Conns :
         \/ Connect(c, "s1")
         \/ \E f \in Feedbacks :
              conn[c].turns < MaxSharedTurns /\ RecvUser(c, f)
         \/ LoadCode(c)
         \/ \E p \in PartialsShared : StreamNext(c, p)
         \/ FileStep(c)
         \/ UploadStart(c)
         \/ \E ok \in BOOLEAN : UploadFile(c, ok)
         \/ HandlerError(c)

SpecShared == InitFresh /\ [][NextShared]_vars

\* two clients, two sessions, a database and a daemon that outlive the
\* server process, a daemon that may fail to run the image: the sandbox
\* lifecycle
Next ==
    \/ \E s \in Sessions : CleanupSession(s)
    \/ \E s \in Sessions : CleanupUnknown(s)
    \/ \E c \in Conns :
         \/ \E s \in Sessions : Connect(c, s)
         \/ RecvInit(c)
         \/ ConnectResult(c)
         \/ PreCleanup(c)
         \/ GetNextPort(c)
         \/ \E ok \in BOOLEAN : DockerRun(c, ok)
         \/ StartDevServer(c)
         \/ CreateFailed(c)

Spec == Init /\ [][Next]_vars


(***************************************************************************)
(* Vocabulary of the properties.                                           *)
(***************************************************************************)
Idx(c) == 1..Len(out[c])
TypeAt(c, i) == out[c][i].msg.type
IsErr(c, i) == out[c][i].msg.err
\* indices of the coordinator's envelopes of type t
Of(c, t) == {i \in Idx(c) : TypeAt(c, i) = t /\ ~IsErr(c, i)}
ErrIdx(c) == {i \in Idx(c) : IsErr(c, i)}
\* indices of update_file envelopes naming path q
FileIdx(c, q) == {i \in Of(c, "update_file") : out[c][i].msg.text = q}

\* the generator ran to its end: the stream was exhausted, the upload
\* succeeded, update_completed was yielded and sent
TurnSucceeded(c) == gen[c].pc = "done" /\ conn[c].pc = "recv"

\* the handling of the last client message is over
Handled(c) == conn[c].pc \in {"recv", "closed"}

\* connection c is the registered channel of its session and its peer has
\* not closed it
ChannelUp(c) ==
    /\ conn[c].sid \in Sessions
    /\ active_connections[conn[c].sid] = c
    /\ conn[c].open

\* the container the agent of connection c is bound to
BoundCid(c) == session_data[conn[c].agent].sandbox_id

\* update_in_progress, agent_partial*, agent_final, update_file*,
\* update_completed
ShapeOK(c) ==
    LET n == Len(out[c]) IN
    /\ n >= 3
    /\ TypeAt(c, 1) = "update_in_progress"
    /\ TypeAt(c, n) = "update_completed"
    /\ \E j \in 2..(n - 1) :
         /\ TypeAt(c, j) = "agent_final"
         /\ \A i \in 2..(j - 1) : TypeAt(c, i) = "agent_partial"
         /\ \A i \in (j + 1)..(n - 1) : TypeAt(c, i) = "update_file"

(***************************************************************************)
(* C1.  The envelope types of every successful turn match                  *)
(* update_in_progress, agent_partial*, agent_final, update_file*,          *)
(* update_completed: agent_final and update_completed occur exactly once,  *)
(* no update_file precedes agent_final, update_completed is last.          *)
(***************************************************************************)
C1_ShapeOfEverySuccessfulTurn ==
    \A c \in Conns : TurnSucceeded(c) => ShapeOK(c)

(***************************************************************************)
(* C2.  Last write wins: after a successful turn the content committed     *)
(* for a path is the content of the last partial entry that carried the    *)
(* path.                                                                   *)
(***************************************************************************)
C2_LastWriteWins ==
    \A c \in Conns : TurnSucceeded(c) =>
      \A q \in Paths :
        obs[c].last_content[q] # Absent =>
          fs[BoundCid(c)][q] = obs[c].last_content[q]

(***************************************************************************)
(* C3.  A turn whose stream failed has called upload not at all, has left  *)
(* the sandbox's files as they were, has handed exactly one error-carrying *)
(* envelope, of type agent_final, to the channel as its last envelope, and *)
(* has emitted no update_completed; the envelope is delivered whenever the  *)
(* channel is up.                                                          *)
(***************************************************************************)
C3_StreamFailureDoesNotCommit ==
    \A c \in Conns :
      (obs[c].failed = "stream" /\ Handled(c)) =>
        /\ gen[c].uploads = 0
        /\ fs[BoundCid(c)] = obs[c].fs0
        /\ ErrIdx(c) = {Len(out[c])}
        /\ TypeAt(c, Len(out[c])) = "agent_final"
        /\ Of(c, "update_completed") = {}
        /\ ChannelUp(c) => out[c][Len(out[c])].outcome = "delivered"

C3_Witness ==
    \E c \in Conns :
      /\ obs[c].failed = "stream"
      /\ Handled(c)
      /\ gen[c].new_code_map # NoFiles
      /\ ChannelUp(c)

(***************************************************************************)
(* C4.  Losing the delivery channel does not cancel a turn: a user message *)
(* of a bound session, handled while nothing on the server side fails      *)
(* (stream, load and upload succeed), runs to the end of the generator     *)
(* and commits through upload, whether the channel was lost before the     *)
(* turn started or during it.                                              *)
(***************************************************************************)
C4_DetachDoesNotCancel ==
    \A c \in Conns :
      (/\ gen[c].feedback # "none"
       /\ Handled(c)
       /\ BoundCid(c) # NoCid
       /\ obs[c].failed \in {"no", "send"}) =>
        /\ gen[c].pc = "done"
        /\ gen[c].uploads = 1

(***************************************************************************)
(* C5.  An init call that finds the session bound returns true, calls      *)
(* neither connect nor create, answers exists = true and leaves the        *)
(* binding as it found it.                                                 *)
(***************************************************************************)
C5_InitIdempotent ==
    \A c \in Conns :
      ini[c].pre # NoBinding =>
        /\ ini[c].ret = "true"
        /\ ini[c].calls = {}
        /\ ini[c].recorded = ini[c].pre
        /\ ini[c].created = NoCid
        /\ Handled(c)
        /\ gen[c].feedback = "none" =>
             /\ out[c] # <<>>
             /\ out[c][1].msg.type = "init"
             /\ out[c][1].msg.exists

C5_Witness ==
    \E c \in Conns :
      /\ ini[c].pre # NoBinding
      /\ ini[c].ret = "true"
      /\ ini[c].pre.sandbox_id \in {k.id : k \in docker}

(***************************************************************************)
(* C6.  When the row of an unbound session names a sandbox the daemon no   *)
(* longer knows, init goes on to create, never answers from the row, and   *)
(* the binding it records on success is the sandbox create provisioned:    *)
(* its id, its port, its url.                                              *)
(***************************************************************************)
C6_ReconnectFallback ==
    \A c \in Conns :
      ini[c].gone =>
        /\ "create" \in ini[c].calls
        /\ ini[c].ret # "true"
        /\ ini[c].ret = "false" =>
             /\ ini[c].created # NoCid
             /\ ini[c].created # ini[c].db_cid
             /\ ini[c].recorded =
                  SandboxData(ini[c].created, conn[c].sid, ini[c].port,
                              "ready")

C6_Witness ==
    \E c \in Conns :
      /\ ini[c].gone
      /\ ini[c].ret = "false"
      /\ session_data[conn[c].agent] = ini[c].recorded

(***************************************************************************)
(* C7.  The ports _get_next_port has assigned to creates in flight are     *)
(* pairwise distinct, and none is a port a live sandbox publishes.         *)
(***************************************************************************)
C7_AssignedPortsDistinct ==
    /\ \A c, d \in Conns :
         (c # d /\ conn[c].pc = "run" /\ conn[d].pc = "run") =>
           ini[c].port # ini[d].port
    /\ \A c \in Conns : conn[c].pc = "run" => ini[c].port \notin BoundPorts

(***************************************************************************)
(* C8.  Within one turn the coordinator's agent_partial and agent_final    *)
(* envelopes share one id, its update_file envelopes share one id, and     *)
(* the two ids differ.                                                     *)
(***************************************************************************)
C8_CorrelationIds ==
    \A c \in Conns :
      LET plan == Of(c, "agent_partial") \cup Of(c, "agent_final")
          file == Of(c, "update_file")
      IN
      /\ \A i, j \in plan : out[c][i].msg.id = out[c][j].msg.id
      /\ \A i, j \in file : out[c][i].msg.id = out[c][j].msg.id
      /\ \A i \in plan : \A j \in file : out[c][i].msg.id # out[c][j].msg.id

C8_Witness ==
    \E c \in Conns :
      /\ TurnSucceeded(c)
      /\ Of(c, "agent_partial") # {}
      /\ Of(c, "agent_final") # {}
      /\ Cardinality(Of(c, "update_file")) = 2

(***************************************************************************)
(* C9.  update_file is emitted once for each path the stream has carried,  *)
(* during the first partial that carries it, and never again.              *)
(***************************************************************************)
C9_UpdateFileOncePerPath ==
    \A c \in Conns : \A q \in Paths :
      /\ Cardinality(FileIdx(c, q)) <= 1
      /\ \A i \in FileIdx(c, q) :
           obs[c].first_seen[q] # 0 /\ out[c][i].k = obs[c].first_seen[q]
      /\ (gen[c].pc \in {"for", "done", "dead"} /\ obs[c].first_seen[q] # 0)
           => FileIdx(c, q) # {}

C9_Witness ==
    \E c \in Conns :
      /\ TurnSucceeded(c)
      /\ obs[c].n = 2
      /\ obs[c].first_seen["P"] = 1
      /\ \E i \in 1..Len(gen[c].cur.files) : gen[c].cur.files[i].path = "P"
      /\ Cardinality(FileIdx(c, "P")) = 1
      /\ Cardinality(FileIdx(c, "Q")) = 1

(***************************************************************************)
(* C10.  The plan envelopes of a turn are determined by the plan states    *)
(* read: agent_partial with the partial's text for each partial before     *)
(* the first Complete one, agent_final with its text for the first         *)
(* Complete one, nothing for any later partial; each is emitted while its  *)
(* partial is the current one.                                             *)
(***************************************************************************)
FirstComplete(plans) ==
    LET done == {i \in 1..Len(plans) : plans[i].state = "Complete"} IN
    IF done = {} THEN Len(plans) + 1
    ELSE CHOOSE i \in done : \A j \in done : i <= j

ExpectedPlanEvents(plans) ==
    LET fc == FirstComplete(plans)
        m == IF fc <= Len(plans) THEN fc ELSE Len(plans)
    IN [i \in 1..m |->
          [type |-> IF i = fc THEN "agent_final" ELSE "agent_partial",
           text |-> plans[i].value, k |-> i]]

IsPlanEvent(e) ==
    e.msg.type \in {"agent_partial", "agent_final"} /\ ~e.msg.err

PlanEvents(c) ==
    LET sel == SelectSeq(out[c], IsPlanEvent) IN
    [i \in 1..Len(sel) |->
       [type |-> sel[i].msg.type, text |-> sel[i].msg.text, k |-> sel[i].k]]

C10_PlanPhase ==
    \A c \in Conns : PlanEvents(c) = ExpectedPlanEvents(obs[c].plans)

C10_Witness ==
    \E c \in Conns :
      /\ TurnSucceeded(c)
      /\ obs[c].n = 2
      /\ obs[c].plans[1].state = "Complete"
      /\ obs[c].plans[2].state = "Incomplete"
      /\ Len(PlanEvents(c)) = 1

(***************************************************************************)
(* C11.  A successful turn has called upload exactly once, after the last  *)
(* partial was read and right before update_completed, and the call put    *)
(* the whole accumulated map into the sandbox: every path of the map has   *)
(* the map's content, every other path is as it was.  With an empty map    *)
(* nothing changes and update_completed is still emitted.                  *)
(***************************************************************************)
C11_SingleCommit ==
    \A c \in Conns : TurnSucceeded(c) =>
      /\ gen[c].uploads = 1
      /\ obs[c].upload_n = obs[c].n
      /\ Of(c, "update_completed") = {obs[c].upload_at + 1}
      /\ Len(out[c]) = obs[c].upload_at + 1
      /\ \A q \in Paths :
           fs[BoundCid(c)][q] =
             IF gen[c].new_code_map[q] # Absent
             THEN gen[c].new_code_map[q] ELSE obs[c].fs0[q]
      /\ gen[c].new_code_map = NoFiles => fs[BoundCid(c)] = obs[c].fs0

C11_Witness ==
    \E c \in Conns :
      /\ TurnSucceeded(c)
      /\ obs[c].n = 2
      /\ Len(gen[c].order) = 2
      /\ fs[BoundCid(c)] # obs[c].fs0

(***************************************************************************)
(* C12.  A turn that failed (stream, load or upload) leaves the agent's    *)
(* binding as it was when the turn started and the handler back at         *)
(* receive_text with its channel registered; the turn that follows a       *)
(* failed turn starts with that same binding, runs the generator from its  *)
(* first yield and does not fail to resolve a binding that was there.      *)
(***************************************************************************)
C12_FailedTurnKeepsBinding ==
    \A c \in Conns :
      /\ obs[c].failed \in TurnFailures =>
           session_data[conn[c].agent] = obs[c].binding0
      /\ (obs[c].failed \in TurnFailures /\ Handled(c)) =>
           /\ conn[c].pc = "recv"
           /\ ChannelUp(c)
      /\ obs[c].after_failure =>
           /\ obs[c].binding0 = obs[c].prev_binding
           /\ session_data[conn[c].agent] = obs[c].prev_binding
           /\ gen[c].pc # "idle"
           /\ out[c] # <<>>
           /\ TypeAt(c, 1) = "update_in_progress"
           /\ obs[c].binding0 # NoBinding => obs[c].failed # "load"

C12_Witness ==
    \E c \in Conns :
      /\ obs[c].after_failure
      /\ obs[c].binding0 # NoBinding
      /\ TurnSucceeded(c)
      /\ Len(gen[c].order) >= 1

(***************************************************************************)
(* C13.  Every agent holds at most one binding for its session, and a      *)
(* binding is one whole record: its session is the agent's session, its    *)
(* port and url are those the container with its sandbox_id was started    *)
(* with.  The same holds for the pair the orchestrator keeps and for the   *)
(* pair the session's row keeps, also after a failed reconnection and      *)
(* with two handlers creating at once.                                     *)
(***************************************************************************)
WholeBinding(b) ==
    /\ b.sandbox_id \in 1..MaxContainers
    /\ made[b.sandbox_id] = RunWith(b.port, b.session_id)
    /\ b.url = Url(b.port)

C13_BindingIsWhole ==
    /\ \A a \in AgentIds :
         /\ session_data[a] # NoBinding =>
              /\ WholeBinding(session_data[a])
              /\ \A s \in Sessions :
                   session_agents[s] = a => session_data[a].session_id = s
         /\ containers[a] # NoCid =>
              made[containers[a]].port = ports[a]
    /\ \A s \in Sessions :
         (db[s].exists /\ db[s].sandbox_id # NoCid) =>
           /\ db[s].sandbox_url = Url(made[db[s].sandbox_id].port)
           /\ made[db[s].sandbox_id].sid = s
    /\ \A c \in Conns :
         ini[c].ret = "false" => WholeBinding(ini[c].recorded)

C13_Witness ==
    \E c \in Conns :
      /\ ini[c].connect_failed
      /\ ini[c].ret = "false"
      /\ session_data[conn[c].agent].sandbox_id = ini[c].created
      /\ containers[conn[c].agent] # ini[c].created

(***************************************************************************)
(* C14.  A user message handled while no init of the session has returned  *)
(* emits update_in_progress and then fails to resolve the binding: no      *)
(* partial is read, nothing is uploaded, no container's files change, and  *)
(* the only other envelope is the handler's error envelope.                *)
(***************************************************************************)
InitReturned(c) == ini[c].ret \in {"true", "false"}

C14_NotBound ==
    \A c \in Conns :
      (~InitReturned(c) /\ gen[c].pc \notin {"idle", "load"}) =>
        /\ obs[c].failed = "load"
        /\ gen[c].pc = "dead"
        /\ obs[c].n = 0
        /\ gen[c].uploads = 0
        /\ fs = [i \in DOMAIN fs |-> NoFiles]
        /\ TypeAt(c, 1) = "update_in_progress"
        /\ Idx(c) \ ErrIdx(c) = {1}
        /\ Handled(c) => ErrIdx(c) = {2}

C14_Witness ==
    \E c \in Conns :
      /\ ~InitReturned(c)
      /\ obs[c].failed = "load"
      /\ Handled(c)
      /\ Len(out[c]) = 2

(***************************************************************************)
(* C15.  During and after a turn the agent's history is the history the    *)
(* turn started with followed by nothing, as long as no partial read had   *)
(* plan state Complete, and otherwise by exactly two entries: the user's   *)
(* feedback text and then the assistant's plan text of the first Complete  *)
(* partial.  No text of an Incomplete partial is appended.                 *)
(***************************************************************************)
Finalized(plans) == FirstComplete(plans) <= Len(plans)

ExpectedHistory(c) ==
    IF Finalized(obs[c].plans)
    THEN obs[c].hist0 \o
           <<[role |-> "user", content |-> gen[c].feedback],
             [role |-> "assistant",
              content |-> obs[c].plans[FirstComplete(obs[c].plans)].value]>>
    ELSE obs[c].hist0

C15_HistoryAtFinalization ==
    \A c \in Conns :
      gen[c].feedback # "none" =>
        history[conn[c].agent] = ExpectedHistory(c)

C15_Witness ==
    \E c \in Conns :
      /\ TurnSucceeded(c)
      /\ Len(obs[c].hist0) = 2
      /\ obs[c].n = 2
      /\ obs[c].plans[1].state = "Incomplete"
      /\ obs[c].plans[2].state = "Complete"
      /\ obs[c].plans[1].value # obs[c].plans[2].value
      /\ Len(history[conn[c].agent]) = 4

(***************************************************************************)
(* C16.  An init call returns false exactly when it ran create to the end  *)
(* and true exactly when it created nothing, having found the session      *)
(* bound or having reconnected; the init envelope that answers it carries  *)
(* the binding recorded at the return, the session id and that flag.       *)
(***************************************************************************)
Reconnected(c) ==
    /\ ini[c].pre = NoBinding
    /\ ini[c].calls = {"connect"}
    /\ ~ini[c].connect_failed

Provisioned(c) ==
    /\ "create" \in ini[c].calls
    /\ ini[c].created # NoCid
    /\ ini[c].recorded = CreatedData(c)

C16_ExistsFlag ==
    \A c \in Conns :
      /\ ini[c].ret = "false" <=> (Provisioned(c) /\ ini[c].recorded # NoBinding)
      /\ ini[c].ret = "true" =>
           /\ ini[c].created = NoCid
           /\ ini[c].pre # NoBinding \/ Reconnected(c)
      /\ (ini[c].ret \in {"true", "false"} /\ gen[c].feedback = "none") =>
           /\ Len(out[c]) = 1
           /\ out[c][1].msg.type = "init"
           /\ ~out[c][1].msg.err
           /\ out[c][1].msg.sid = conn[c].sid
           /\ out[c][1].msg.binding = ini[c].recorded
           /\ out[c][1].msg.exists = (ini[c].ret = "true")

C16_Witness ==
    \E c, d \in Conns :
      /\ ini[c].ret = "false"
      /\ ini[d].ret = "true"
      /\ out[c][1].msg.binding = out[d][1].msg.binding

(***************************************************************************)
(* C17.  A successful turn of a bound session whose stream is exactly one  *)
(* partial, with plan state Complete, plan text v and the single file      *)
(* q -> x, has emitted exactly update_in_progress, agent_final(v),         *)
(* update_file(q), update_completed, in this order, and the sandbox holds  *)
(* x for q.                                                                *)
(***************************************************************************)
OneShot(c, v, q, x) ==
    /\ TurnSucceeded(c)
    /\ obs[c].plans = <<[state |-> "Complete", value |-> v]>>
    /\ gen[c].cur.files = <<FileEntry(q, x)>>

C17_EndToEnd ==
    \A c \in Conns : \A v \in PlanTexts : \A q \in Paths : \A x \in Contents :
      OneShot(c, v, q, x) =>
        /\ [i \in Idx(c) |-> <<TypeAt(c, i), out[c][i].msg.text>>] =
             << <<"update_in_progress", "">>, <<"agent_final", v>>,
                <<"update_file", q>>, <<"update_completed", "">> >>
        /\ ErrIdx(c) = {}
        /\ \A i \in Idx(c) : out[c][i].outcome = "delivered"
        /\ fs[BoundCid(c)][q] = x

C17_Witness ==
    \E c \in Conns : OneShot(c, "t2", "P", "A") /\ Len(out[c]) = 4

(***************************************************************************)
(* C18.  The envelopes of a turn reach the client in the order the         *)
(* generator produced them: as long as the channel is up every envelope    *)
(* handed to send_message so far has been delivered to this client, the    *)
(* delivered envelopes are always an initial part of the produced ones,    *)
(* the envelopes follow the order of the stream (those of an earlier       *)
(* partial first, within a partial the plan envelope before the file       *)
(* envelopes), and after a send that raised the generator produces         *)
(* nothing more.                                                           *)
(***************************************************************************)
C18_DeliveryInOrder ==
    \A c \in Conns :
      /\ ChannelUp(c) =>
           \A i \in Idx(c) :
             out[c][i].outcome = "delivered" /\ out[c][i].to = c
      /\ \A i, j \in Idx(c) :
           i < j =>
             /\ out[c][j].outcome = "delivered" =>
                  out[c][i].outcome = "delivered"
             /\ out[c][i].k <= out[c][j].k
             /\ (/\ out[c][i].k = out[c][j].k
                 /\ TypeAt(c, i) = "update_file"
                 /\ ~IsErr(c, j))
                  => TypeAt(c, j) \notin {"agent_partial", "agent_final",
                                          "update_in_progress"}
             /\ out[c][i].outcome = "raised" => IsErr(c, j)

C18_Witness ==
    \E c \in Conns :
      /\ ChannelUp(c)
      /\ TurnSucceeded(c)
      /\ Of(c, "agent_partial") # {}
      /\ Of(c, "agent_final") # {}
      /\ Of(c, "update_file") # {}

(***************************************************************************)
(* C19: nothing in the core keeps a session to one send_feedback at a      *)
(* time.  Two connections opened with the same session_id are handed the   *)
(* same agent (and with it the same binding and the same sandbox), a user  *)
(* message on either starts a turn whatever the other is doing, and the    *)
(* copies of two commits can alternate.  The state property: handlers of   *)
(* one session hold one agent, and two turns in flight on it write to the  *)
(* one sandbox of its binding.  The reachable state: both turns have       *)
(* completed and the sandbox holds one file of each answer, a content no   *)
(* order of the two turns run one after the other produces.                *)
(***************************************************************************)
InFlight(c) ==
    conn[c].pc = "turn" /\ gen[c].pc \in {"load", "for", "files", "upload"}

C19_SharedAgent ==
    \A c, d \in Conns :
      (/\ c # d
       /\ conn[c].sid \in Sessions
       /\ conn[c].sid = conn[d].sid)
        => /\ conn[c].agent = conn[d].agent
           /\ session_agents[conn[c].sid] = conn[c].agent
           /\ (gen[c].pc = "upload" /\ gen[d].pc = "upload")
                => /\ InFlight(c) /\ InFlight(d)
                   /\ BoundCid(c) = BoundCid(d)

C19_Witness ==
    \E c, d \in Conns :
      /\ c # d
      /\ conn[c].sid = conn[d].sid
      /\ gen[c].pc = "done" /\ gen[d].pc = "done"
      /\ obs[c].failed = "no" /\ obs[d].failed = "no"
      /\ gen[c].new_code_map["P"] # gen[d].new_code_map["P"]
      /\ gen[c].new_code_map["Q"] # gen[d].new_code_map["Q"]
      /\ fs[BoundCid(c)]["P"] = gen[c].new_code_map["P"]
      /\ fs[BoundCid(c)]["Q"] = gen[d].new_code_map["Q"]

(***************************************************************************)
(* C20: DELETE /sessions/{id}.  A step that forgets a session takes its    *)
(* agent and its registration out of the manager and answers "cleaned";    *)
(* it leaves every other session, the docker daemon (containers and the    *)
(* host ports they publish), the files, the orchestrators' records and the *)
(* database as they were.  The agent a later connection of the session     *)
(* gets has no binding and no history.  A request for a session the        *)
(* manager has no agent for answers "not found" and changes nothing else.  *)
(***************************************************************************)
Forgotten(s) == session_agents[s] # NoAgent /\ session_agents'[s] = NoAgent

Called(op) == api'.n = api.n + 1 /\ api'.op = op

C22_UploadNotAtomic ==
    [][Called("upload") =>
         LET u == api'
             before == {u.order[i] : i \in 1..u.k}
         IN
         /\ u.ret = (u.k = Len(u.order))
         /\ \A p \in Paths :
              fs'[u.cid][p] =
                IF p \in before THEN u.files[p] ELSE fs[u.cid][p]
         /\ \A i \in DOMAIN fs : i # u.cid => fs'[i] = fs[i]
      ]_vars

C22_Witness ==
    /\ api.op = "upload" /\ ~api.ret
    /\ Len(api.order) = 2 /\ api.k = 1
    /\ fs[api.cid][api.order[1]] = api.files[api.order[1]]
    /\ fs[api.cid][api.order[2]] # api.files[api.order[2]]

Creating(c) ==
    conn[c].pc \in {"precleanup", "getport", "run", "devserver",
                    "failcleanup"}

C24_CreateNamesNeverCollide ==
    /\ \A c, d \in Conns :
         (c # d /\ Creating(c) /\ Creating(d) /\ conn[c].sid = conn[d].sid)
           => ini[c].name # ini[d].name
    /\ \A i \in (OldCid + 1)..(next_cid - 1) : \E k \in docker : k.id = i

(***************************************************************************)
(* C25: a create that fails.  The step at which docker run fails changes   *)
(* no registry and no container; the call has no container id of its own  *)
(* at that point.  The step that ends the call removes whatever container  *)
(* has the derived name, raises (the handler answers INIT with an error)   *)
(* and leaves the containers and ports registries and the binding as they  *)
(* are.                                                                    *)
(***************************************************************************)
C25_FailedCreate ==
    [][\A c \in Conns :
         /\ (conn[c].pc = "run" /\ conn'[c].pc = "failcleanup") =>
              UNCHANGED <<containers, ports, docker, session_data, db>>
         /\ (conn[c].pc = "failcleanup" /\ conn'[c].pc # "failcleanup") =>
              /\ ini[c].created = NoCid
              /\ \A k \in docker' : k.name # ini[c].name
              /\ docker' \subseteq docker
              /\ ini'[c].ret = "raised"
              /\ Len(out'[c]) = 1 /\ out'[c][1].msg.err
              /\ UNCHANGED <<containers, ports, session_data, db>>
      ]_vars

C25_Witness ==
    \E c \in Conns :
      /\ ini[c].ret = "raised"
      /\ "create" \in ini[c].calls
      /\ conn[c].pc = "recv"
      /\ containers[conn[c].agent] = NoCid
      /\ ports[conn[c].agent] = 0
      /\ \A k \in docker : k.name # ini[c].name

(***************************************************************************)
(* C26: a provisioning failure during init.  One init call runs docker    *)
(* at most once.  A call that failed has answered with an error and has   *)
(* recorded no binding: the session is unbound unless another handler of  *)
(* the session has bound it.  The next INIT that finds the session        *)
(* unbound goes to the orchestrator again.                                 *)
(***************************************************************************)
C26_FailureNoRetry ==
    \A c \in Conns :
      LET a == conn[c].agent IN
      /\ ini[c].runs <= 1
      /\ ini[c].ret = "raised" =>
           /\ ini[c].runs = 1 /\ ini[c].created = NoCid
           /\ ini[c].recorded = NoBinding
           /\ Len(out[c]) = 1 /\ out[c][1].msg.err
           /\ \/ session_data[a] = NoBinding
              \/ \E d \in Conns \ {c} :
                   /\ conn[d].agent = a
                   /\ ini[d].recorded = session_data[a]
      /\ (ini[c].prev = "raised" /\ ini[c].pre = NoBinding) =>
           /\ ini[c].calls # {}
           /\ ini[c].ret # "true"

C26_Witness ==
    \E c \in Conns :
      /\ ini[c].prev = "raised"
      /\ ini[c].pre = NoBinding
      /\ ini[c].ret = "false"
      /\ ini[c].runs = 1
      /\ session_data[conn[c].agent].sandbox_id = ini[c].created

(***************************************************************************)
(* C27: once an init call has ended the session has a recorded binding    *)
(* with a status: a usable one (the agent's entry, or a row with status   *)
(* active) when connect or create succeeded, and one with status error,   *)
(* in the agent or in the row, when the call failed.                       *)
(***************************************************************************)
C27_StatusRecorded ==
    \A c \in Conns :
      LET a == conn[c].agent
          sid == conn[c].sid
      IN
      /\ ini[c].ret \in {"true", "false"} =>
           \/ session_data[a].status \in {"ready", "connected"}
           \/ db[sid].status = "active"
      /\ ini[c].ret = "raised" =>
           \/ session_data[a].status = "error"
           \/ db[sid].exists /\ db[sid].status = "error"

(***************************************************************************)
(* C30: two init calls of one unbound session that overlap (the second    *)
(* passes the test of line 87 while the first is still provisioning).     *)
(* When both have ended, at most one of them has provisioned a sandbox,   *)
(* neither has failed, both have recorded the same binding, that binding  *)
(* is the session's, its container runs, and no other container that was  *)
(* run for the session is left.                                            *)
(***************************************************************************)
C30_ConcurrentInitOneSandbox ==
    \A c, d \in Conns :
      LET a == conn[c].agent
          sid == conn[c].sid
      IN
      (/\ c # d
       /\ conn[d].agent = a
       /\ ini[c].raced
       /\ ini[d].pre = NoBinding /\ ini[d].calls # {}
       /\ ini[c].ret # "none" /\ ini[d].ret # "none"
       /\ ~Provisioning(c) /\ ~Provisioning(d))
        => /\ ini[c].created = NoCid \/ ini[d].created = NoCid
           /\ ini[c].ret # "raised" /\ ini[d].ret # "raised"
           /\ ini[c].recorded = session_data[a]
           /\ ini[d].recorded = session_data[a]
           /\ \E k \in docker : k.id = session_data[a].sandbox_id
           /\ \A k \in docker :
                (k.id > OldCid /\ made[k.id].sid = sid)
                  => k.id = session_data[a].sandbox_id


\* the in-memory state the server keeps for session t: its connection
\* registration, its agent, and that agent's binding and history
MemoryOf(t) ==
    LET a == session_agents[t] IN
    [connection |-> active_connections[t],
     agent |-> a,
     binding |-> IF a = NoAgent THEN NoBinding ELSE session_data[a],
     history |-> IF a = NoAgent THEN <<>> ELSE history[a]]

\* the handler of connection c takes a step in which an operation of its
\* session fails (docker run is refused, load_code, the stream or the upload
\* raises) or in which that failure is handled (the cleanup of the failed
\* create, the error envelope)
FailureStep(c) ==
    /\ conn'[c].pc # conn[c].pc
    /\ \/ conn'[c].pc \in {"exc", "failcleanup"}
       \/ conn[c].pc \in {"exc", "failcleanup"}

(***************************************************************************)
(* C28: failures are isolated per session.  A step in which an operation   *)
(* of one session fails, or in which the handler deals with that failure,  *)
(* leaves the connection registration, the agent, the binding and the      *)
(* history of every other session as they were.                            *)
(***************************************************************************)
C28_FailuresIsolated ==
    [][\A c \in Conns :
         FailureStep(c) =>
           \A t \in Sessions \ {conn[c].sid} : MemoryOf(t)' = MemoryOf(t)]_vars

\* an init or a turn of one session has failed while another session is
\* registered, bound to a sandbox and has a turn in its history
C28_Witness ==
    \E c \in Conns, d \in Conns :
      /\ conn[c].sid \in Sessions
      /\ conn[d].sid \in Sessions \ {conn[c].sid}
      /\ \/ obs[c].failed \in TurnFailures
         \/ ini[c].ret = "raised"
      /\ active_connections[conn[d].sid] = d
      /\ MemoryOf(conn[d].sid).binding # NoBinding
      /\ MemoryOf(conn[d].sid).history # <<>>

(***************************************************************************)
(* C31: after a successful first init of a session that had no row, the    *)
(* row of the session holds the sandbox_id and the url of the binding the  *)
(* init created.                                                           *)
(***************************************************************************)
C31_FirstInitPersistsBinding ==
    [][\A c \in Conns :
         LET sid == conn[c].sid IN
         (/\ ini[c].ret = "none"
          /\ ini'[c].ret = "false"
          /\ ~db[sid].exists)
         => /\ db'[sid].exists
            /\ db'[sid].sandbox_id = ini'[c].recorded.sandbox_id
            /\ db'[sid].sandbox_url = ini'[c].recorded.url]_vars

(***************************************************************************)
(* C32: a connection registered as the delivery channel of its session is  *)
(* deregistered only by its own disconnect: a step that leaves the session *)
(* without a channel while connection c was registered is the step in      *)
(* which the handler of c ends.  In particular the disconnect of an older  *)
(* connection of the session does not remove the newer one.                *)
(***************************************************************************)
C32_OwnDisconnectOnly ==
    [][\A c \in Conns :
         LET sid == conn[c].sid IN
         (/\ sid \in Sessions
          /\ active_connections[sid] = c
          /\ active_connections'[sid] = NoConn)
         => conn[c].pc # "closed" /\ conn'[c].pc = "closed"]_vars

\* the types of the envelopes of a feedback turn
TurnTypes ==
    {"update_in_progress", "agent_partial", "agent_final", "update_file",
     "update_completed"}

(***************************************************************************)
(* C33: every envelope handed to the channel during a feedback turn of     *)
(* session s, from update_in_progress to update_completed or the error     *)
(* envelope, carries session_id = s.                                       *)
(***************************************************************************)
C33_TurnEnvelopesCarrySession ==
    \A c \in Conns :
      \A i \in Idx(c) :
        TypeAt(c, i) \in TurnTypes => out[c][i].msg.sid = conn[c].sid

\* the commit of the turn of connection c fails in this step, after the
\* plan was finalized
UploadFails(c) ==
    /\ obs[c].failed # "upload"
    /\ obs'[c].failed = "upload"
    /\ gen[c].sent_plan

\* the turn of connection c has failed in its commit after the plan was
\* finalized
UploadFailed(c) == obs[c].failed = "upload" /\ gen[c].sent_plan

(***************************************************************************)
(* C34: if the upload fails after the plan was finalized, the step saves   *)
(* no file version and sends no update_completed, the history keeps the    *)
(* turn's user and assistant entries, the handler then ends the turn with  *)
(* the error envelope, and the next turn starts from a history that holds  *)
(* the two entries.                                                        *)
(***************************************************************************)
C34_FailedCommit ==
    [][\A c \in Conns :
         LET a == conn[c].agent IN
         /\ UploadFails(c) =>
              /\ project_files' = project_files
              /\ history'[a] = ExpectedHistory(c)
              /\ Len(history'[a]) = Len(obs[c].hist0) + 2
              /\ conn'[c].pc = "exc"
              /\ \A i \in 1..Len(out'[c]) :
                   out'[c][i].msg.type # "update_completed"
         /\ (UploadFailed(c) /\ conn[c].pc = "exc" /\ conn'[c].pc # "exc") =>
              /\ Len(out'[c]) = Len(out[c]) + 1
              /\ out'[c][Len(out'[c])].msg = ErrorEnvelope(conn[c].sid)
              /\ \A i \in 1..Len(out'[c]) :
                   out'[c][i].msg.type # "update_completed"
              /\ project_files' = project_files
              /\ history'[a] = ExpectedHistory(c)
         /\ (UploadFailed(c) /\ conn'[c].turns = conn[c].turns + 1) =>
              /\ obs'[c].hist0 = ExpectedHistory(c)
              /\ history'[a] = obs'[c].hist0
              /\ project_files' = project_files]_vars

\* a turn that finalized its plan, had files to commit and failed in the
\* upload has been answered with the error envelope; nothing is saved and
\* the history holds the turn
C34_Witness ==
    \E c \in Conns :
      /\ UploadFailed(c)
      /\ conn[c].pc = "recv"
      /\ gen[c].order # <<>>
      /\ IsErr(c, Len(out[c]))
      /\ project_files[conn[c].sid] = NoVersions
      /\ Len(history[conn[c].agent]) = 2

\* the handler of connection c handles a client message whose type is none
\* of init, user and load_code in this step
OtherHandled(c) ==
    /\ obs'[c].other # "none"
    /\ obs[c].other = "none" \/ out'[c] # out[c]

UserRead(c) == conn'[c].turns = conn[c].turns + 1

\* the handler of connection c reads an init message in this step: it
\* enters create_app_environment or answers at once
InitRead(c) ==
    \/ conn'[c].pc = "connecting" /\ conn[c].pc # "connecting"
    \/ conn'[c].pc = "precleanup" /\ conn[c].pc \notin {"connecting",
                                                        "precleanup"}
    \/ ini'[c].ret = "true" /\ ini[c].ret # "true"

\* the generator of the previous user message is not suspended at a yield
GeneratorOver(c) == gen[c].pc \in {"idle", "done", "dead"}

(***************************************************************************)
(* C36: on one connection client messages are handled strictly one after   *)
(* another: a step that reads a client message (user, init or another      *)
(* type) is taken only when the handling of the previous message has       *)
(* ended, the generator of the previous turn being exhausted or abandoned, *)
(* so at most one turn is in flight per connection.                        *)
(***************************************************************************)
C36_OneMessageAtATime ==
    [][\A c \in Conns :
         (UserRead(c) \/ InitRead(c) \/ OtherHandled(c)) =>
           /\ conn[c].pc = "recv"
           /\ conn[c].open
           /\ GeneratorOver(c)
           /\ ~InFlight(c)]_vars

\* the second user message of a connection is being handled after the
\* first turn ran through its whole envelope sequence
C36_Witness ==
    \E c \in Conns :
      /\ conn[c].turns = 2
      /\ InFlight(c)
      /\ gen[c].pc = "for"
      /\ Len(obs[c].hist0) = 2
      /\ Len(out[c]) = 1

PastPreCleanup(c) ==
    conn[c].pc \in {"getport", "run", "devserver", "failcleanup"}

(***************************************************************************)
(* C38: the pre-create removal ends after at most 3 attempts and never     *)
(* raises: while it runs fewer than 3 attempts have been made, and create  *)
(* goes on to provisioning after a removal that succeeded (the container   *)
(* existed or was absent) and after a third attempt that failed.           *)
(***************************************************************************)
C38_PreCleanupBounded ==
    \A c \in Conns :
      /\ ini[c].attempts <= 3
      /\ conn[c].pc = "precleanup" =>
           /\ ini[c].attempts < 3
           /\ ini[c].cleaned = "none"
      /\ PastPreCleanup(c) =>
           /\ ini[c].attempts \in 1..3
           /\ ini[c].cleaned \in {"absent", "removed", "gave_up"}
           /\ ini[c].cleaned = "gave_up" => ini[c].attempts = 3

\* a create that is provisioning after three removals failed, the
\* container of its name still being there
C38_Witness ==
    \E c \in Conns :
      /\ conn[c].pc = "run"
      /\ ini[c].attempts = 3
      /\ ini[c].cleaned = "gave_up"
      /\ \E k \in docker : k.name = ini[c].name

\* the containers and ports registries of orchestrator a have the same keys
SameKeys(a) == (containers[a] = NoCid) <=> (ports[a] = 0)

\* _get_next_port returns a port to the create of connection c in this step
PortAssigned(c) == ini'[c].port # 0 /\ ini'[c].port # ini[c].port

(***************************************************************************)
(* C39: in every state the containers and ports registries of an           *)
(* orchestrator have the same session keys; the candidate port counter of  *)
(* an orchestrator never decreases, and a port it assigns is the counter's *)
(* value, below which every port it assigned before lies: no port is       *)
(* assigned twice by one orchestrator, also after the sandbox that held it *)
(* was cleaned up.  The container OldCid was run by an earlier server      *)
(* process, that is by another orchestrator.                               *)
(***************************************************************************)
C39_RegistriesAndPorts ==
    [][/\ \A a \in AgentIds :
            /\ SameKeys(a)
            /\ SameKeys(a)'
            /\ next_port'[a] >= next_port[a]
            /\ ports[a] < next_port[a]
       /\ \A c \in Conns :
            PortAssigned(c) =>
              LET a == conn[c].agent
                  p == ini'[c].port
              IN
              /\ p = next_port[a]
              /\ next_port'[a] > p
              /\ \A d \in Conns \ {c} :
                   conn[d].agent = a => ini[d].port # p
              /\ \A k \in DOMAIN made \ {OldCid} :
                   (made[k] # NotRun /\ made[k].sid = conn[c].sid) =>
                     made[k].port # p]_vars

\* the orchestrator's first sandbox was cleaned up, its port is free again,
\* and the next create of the same orchestrator was given the next port
C39_Witness ==
    \E c \in Conns :
      /\ conn[c].pc = "run"
      /\ ini[c].port = BasePort + 1
      /\ api.op = "cleanup" /\ api.was /\ api.ret
      /\ api.a = conn[c].agent
      /\ made[api.cid].port = BasePort
      /\ BasePort \notin BoundPorts
      /\ SameKeys(api.a)

====
